---- MODULE Spec2Model ----
(***************************************************************************)
(* In-memory PDF merge of dmitriz/pdf-utils.                               *)
(*                                                                         *)
(* One merge call is modelled as a state machine whose steps are the       *)
(* points where the async code resumes: the call itself, the settlement of *)
(* PDFDocument.create, of PDFDocument.load, of targetDoc.copyPages, each   *)
(* targetDoc.addPage of the forEach, the return of the append step to the  *)
(* merge loop, and the settlement of save.  The PDF library is the         *)
(* environment: every call into it either succeeds or throws one of the    *)
(* values of Thrown.                                                       *)
(*                                                                         *)
(* Three implementations are covered, selected by `variant`:               *)
(*   "variadic"  src/src/pdf-utils.js 88-147  appendPdfPages + mergePdfs   *)
(*   "array"     src/src/pdf-utils.js 35-65   processSinglePdf + mergePdfs *)
(*   "fixed"     src/src/pdf-utils.js.fixed   _appendPdfToDoc +            *)
(*                                            mergePdfsInMemory            *)
(*                                                                         *)
(* Further specifications over the same variables:                         *)
(*   SpecAppend  appendPdfs of src/src/pdf-utils.js.fixed                  *)
(*   SpecConc    several variadic mergePdfs calls in flight at once        *)
(*   SpecDisk    src/src/index.js over the disk functions of               *)
(*               src/src/pdf-utils.js.fixed                                *)
(*   SpecBatch   the path-based mergePdfs and savePdf of                   *)
(*               src/unnamed/part_001                                      *)
(*   SpecReduce  the reduce-based mergePdfs of src/unnamed/part_000        *)
(*   SpecInMemory  mergePdfsInMemory of src/unnamed/part_002               *)
(*   SpecSettles the merges of src/src/pdf-utils.js and of part_000, each  *)
(*               library call settling                                     *)
(***************************************************************************)
EXTENDS Integers, Sequences, FiniteSets, TLC

\* Bounds of the model: number of source buffers of one call, and pages of
\* one source document.
MaxSources == 2
MaxPages == 3

VARIABLES
  variant,      \* which implementation runs
  args,         \* the arguments of the call, as passed
  pdfBuffers,   \* the normalised sequence the loop iterates
  pc,           \* where the call is
  idx,          \* 1-based position of the for-of loop in pdfBuffers
  target,       \* pages of the target document, in order
  sourceDoc,    \* page indices of the source document loaded last
  copiedPages,  \* handles returned by the last copyPages
  k,            \* handles of copiedPages already passed to addPage
  result,       \* settlement of the append step that returned last
  outcome,      \* settlement of the merge call
  settled,      \* number of times the merge call settled
  log,          \* calls made into the PDF library, in order
  docs,         \* per source attempted: its page count, -1 if load failed
  results,      \* settlements of the append steps, in order
  failure,      \* the library call that threw last, with what it threw
  calls,        \* concurrent merge calls: the state of each call
  heap,         \* concurrent merge calls: the pages of each PDFDocument created
  chain,        \* reduce-based merge: the reducer callbacks, one per source
  config,       \* index.js: the module-level configuration
  diskOp,       \* disk layer: the operation in flight, with its locals
  fsLog,        \* disk layer: calls made into fs, in order, with their outcome
  returned,     \* disk layer: what the calls of the API returned, in order
  apiLog,       \* disk layer: the calls of the API, in order, as made
  batch         \* disk layer: the path-based merge call, with its locals

\* The state of one in-memory merge or append call
mergeVars == <<variant, args, pdfBuffers, pc, idx, target, sourceDoc,
               copiedPages, k, result, outcome, settled, log, docs, results,
               failure>>

\* The state of the concurrent merge calls
concVars == <<calls, heap, chain>>

\* The state of the disk layer
diskVars == <<config, diskOp, fsLog, returned, apiLog, batch>>

vars == <<mergeVars, concVars, diskVars>>

----------------------------------------------------------------------------
(* JavaScript values *)

Undefined == [t |-> "undefined"]
Null == [t |-> "null"]
Str(s) == [t |-> "string", s |-> s]
Buffer(bytes) == [t |-> "buffer", bytes |-> bytes]
Array(items) == [t |-> "array", items |-> items]
Err(m) == [t |-> "Error", message |-> Str(m)]
NoMessageObject == [t |-> "object"]

\* Buffer.from('%PDF-1') and Buffer.from('junk!!')
SigBuffer == Buffer(<<"%", "P", "D", "F", "-", "1">>)
JunkBuffer == Buffer(<<"j", "u", "n", "k", "!", "!">>)

SourceValues == {SigBuffer, JunkBuffer, Null, Undefined}

None == [t |-> "none"]

\* Values a failing library call may throw.  `catch (error)` receives any
\* value, and the catch blocks differ in what they do with one that has no
\* message (pdf-utils.js:144 tests error.message, line 63 does not): an
\* Error with the call's own message, an Error with an empty message, the
\* object {} (no message property) and undefined (no property can be read).
\* The same set is thrown by every library call of every implementation.
Thrown(m) == {Err(m), Err(""), NoMessageObject, Undefined}

\* Array.isArray(v)
IsArray(v) == v.t = "array"

\* typeof v === 'string' || v instanceof Uint8Array || v instanceof ArrayBuffer:
\* what PDFDocument.load accepts; it throws a TypeError on anything else.
IsBytes(v) == v.t = "buffer"

\* v is null or undefined: reading a property of it throws a TypeError
IsNullish(v) == v.t \in {"null", "undefined"}

\* e.message
MessageOf(e) == IF e.t = "Error" THEN e.message ELSE Undefined

\* JavaScript truthiness of a string-or-undefined value
Truthy(v) ==
  CASE v.t = "undefined" -> FALSE
    [] v.t = "null" -> FALSE
    [] v.t = "string" -> v.s # ""
    [] OTHER -> TRUE

\* String(v), as done by a template literal or by + with a string
ToStr(v) ==
  CASE v.t = "string" -> v.s
    [] v.t = "undefined" -> "undefined"
    [] v.t = "null" -> "null"
    [] OTHER -> "[object Object]"

\* The TypeError of reading property `prop` of null or undefined
PropertyTypeError(v, prop) ==
  Err("Cannot read properties of " \o v.t \o " (reading '" \o prop \o "')")

\* The TypeError PDFDocument.load throws on an input that is not bytes (the
\* library quotes the names in its message with backquotes, left out here)
LoadTypeError(v) ==
  Err("pdf must be of type string or Uint8Array or ArrayBuffer, but was actually of type "
      \o (IF v.t = "object" THEN "Object" ELSE v.t))

\* Settlements of a promise
Resolved(v) == [state |-> "resolved", value |-> v]
Rejected(e) == [state |-> "rejected", error |-> e]
Pending == [state |-> "pending"]

----------------------------------------------------------------------------
(* The append step *)

\* Mutation of HasPdfSignature: the catch block has no signature test
NoSignatureTest(buf) == FALSE

\* sourceBuffer.slice(0, 5).toString() === '%PDF-'
HasPdfSignature(buf) ==
  /\ IsBytes(buf)
  /\ Len(buf.bytes) >= 5
  /\ SubSeq(buf.bytes, 1, 5) = <<"%", "P", "D", "F", "-">>

\* return { success: true, pagesAdded: n }
Success(n) == [success |-> TRUE, pagesAdded |-> n]

\* catch block of appendPdfPages
AppendPdfPagesCatch(sourceBuffer, error) ==
  Resolved([success |-> FALSE, error |-> error, pagesAdded |-> 0])

\* catch block of processSinglePdf
ProcessSinglePdfCatch(sourceBuffer, error) ==
  Resolved([success |-> FALSE, error |-> error])

\* catch block of _appendPdfToDoc
AppendPdfToDocCatch(sourceBuffer, error) ==
  IF IsNullish(sourceBuffer)
  THEN Rejected(PropertyTypeError(sourceBuffer, "slice"))
  ELSE IF sourceBuffer.t = "object"
  THEN Rejected(Err("sourceBuffer.slice is not a function"))
  ELSE IF HasPdfSignature(sourceBuffer)
       THEN Resolved(Success(0))
       ELSE Resolved([success |-> FALSE, error |-> error, pagesAdded |-> 0])

\* The settlement of the append step when something thrown reaches its catch
AppendCatch(v, sourceBuffer, error) ==
  CASE v = "variadic" -> AppendPdfPagesCatch(sourceBuffer, error)
    [] v = "array" -> ProcessSinglePdfCatch(sourceBuffer, error)
    [] v = "fixed" -> AppendPdfToDocCatch(sourceBuffer, error)

\* Mutation of ReturnsEarlyOnEmpty: the test on pageIndices.length is missing
NeverReturnsEarly(v, pageIndices) == FALSE

\* Mutation of ReturnsEarlyOnEmpty: the test is pageIndices.length <= 1
ReturnsEarlyOnSinglePage(v, pageIndices) ==
  v \in {"variadic", "fixed"} /\ Len(pageIndices) <= 1

\* if (pageIndices.length === 0) return ...: processSinglePdf has no such test
ReturnsEarlyOnEmpty(v, pageIndices) ==
  v \in {"variadic", "fixed"} /\ Len(pageIndices) = 0

\* sourceDoc.getPageIndices() of a document of n pages: [0, ..., n-1]
GetPageIndices(n) == [p \in 1..n |-> p - 1]

\* The handles targetDoc.copyPages(sourceDoc, indices) resolves to: one per
\* index, in the order of the indices, each the page of source src it copies.
CopyPagesResult(src, indices) ==
  [p \in 1..Len(indices) |-> [src |-> src, page |-> indices[p]]]

----------------------------------------------------------------------------
(* The merge step *)

\* Mutation of NormalizeArgs: the function takes one parameter, and wraps it
\* in an array when it is not one
NormalizeFirstArgument(a) ==
  IF Len(a) = 0 THEN <<>>
  ELSE IF IsArray(a[1]) THEN a[1].items ELSE <<a[1]>>

\* Mutation of NormalizeArgs: the array form is not recognised
NormalizeArgsSpreadOnly(a) == a

\* if (args.length === 1 && Array.isArray(args[0])) pdfBuffers = args[0];
\* else pdfBuffers = args;
NormalizeArgs(a) ==
  IF Len(a) = 1 /\ IsArray(a[1]) THEN a[1].items ELSE a

\* const mergePdfs = async (pdfBuffers) => ...: the first argument
FirstParameter(a) == IF Len(a) >= 1 THEN a[1].items ELSE <<>>

\* Mutation of AppendFailed: the result of the append step is ignored
AppendFailedIgnored(r) == FALSE

\* if (!result.success) throw result.error
AppendFailed(r) == ~r.success

FailedToMerge == "Failed to merge PDFs: "
UnknownError == "Unknown error during PDF merge"

\* Mutation of WrapWithFallback: the caught value is rethrown as it is
Rethrow(error) == error

\* catch block of the variadic mergePdfs and of mergePdfsInMemory: what the
\* call rejects with
WrapWithFallback(error) ==
  IF IsNullish(error)
  THEN PropertyTypeError(error, "message")
  ELSE Err(FailedToMerge \o
           (IF Truthy(MessageOf(error)) THEN ToStr(MessageOf(error))
                                         ELSE UnknownError))

\* catch block of the array-form mergePdfs
WrapWithTemplate(error) ==
  IF IsNullish(error)
  THEN PropertyTypeError(error, "message")
  ELSE Err(FailedToMerge \o ToStr(MessageOf(error)))

WrapError(v, error) ==
  IF v = "array" THEN WrapWithTemplate(error) ELSE WrapWithFallback(error)

\* The page save() adds to a document that has no page
BlankPage == [src |-> 0, page |-> 0]

\* The bytes save() resolves to: the serialization of the document's pages;
\* a document without pages is given one blank page first, so the bytes of
\* a merge of nothing load as a document of one page
Serialize(pages) ==
  [t |-> "bytes", pages |-> IF pages = <<>> THEN <<BlankPage>> ELSE pages]

----------------------------------------------------------------------------
(* Paths and the configuration of index.js *)

\* A path: absolute or relative, and its segments
Path(abs, segs) == [abs |-> abs, segs |-> segs]

\* process.cwd()
Cwd == Path(TRUE, <<"work">>)

\* let config = { baseDir: process.cwd(), allowOutsideBaseDir: false,
\*                createDirsIfMissing: true }
DefaultConfig ==
  [baseDir |-> Cwd, allowOutsideBaseDir |-> FALSE, createDirsIfMissing |-> TRUE]

\* Another base directory
OtherDir == Path(TRUE, <<"srv", "pdf">>)

\* Segments of a path with "a/.." removed, as path.resolve leaves them; acc
\* holds the segments kept so far
RECURSIVE Normalize(_, _)
Normalize(segs, acc) ==
  IF segs = <<>> THEN acc
  ELSE IF Head(segs) = ".."
       THEN Normalize(Tail(segs),
                      IF acc = <<>> THEN acc ELSE SubSeq(acc, 1, Len(acc) - 1))
       ELSE Normalize(Tail(segs), Append(acc, Head(segs)))

\* Mutation of ResolveFrom: the default base directory is used, whatever
\* the configuration says
ResolveFromCwd(baseDir, p) ==
  IF p.abs THEN p ELSE Path(TRUE, Normalize(Cwd.segs \o p.segs, <<>>))

\* path.isAbsolute(p) ? p : path.resolve(baseDir, p)
ResolveFrom(baseDir, p) ==
  IF p.abs THEN p ELSE Path(TRUE, Normalize(baseDir.segs \o p.segs, <<>>))

\* path.dirname(p), for a path of at least one segment
Dirname(p) == Path(p.abs, SubSeq(p.segs, 1, Len(p.segs) - 1))

\* Mutation of Override: the spread is in the other order,
\* { ...options, ...cfg }
OverrideByConfig(cfg, options) ==
  [key \in DOMAIN cfg \cup DOMAIN options |->
     IF key \in DOMAIN cfg THEN cfg[key] ELSE options[key]]

\* { ...cfg, ...options }
Override(cfg, options) ==
  [key \in DOMAIN cfg \cup DOMAIN options |->
     IF key \in DOMAIN options THEN options[key] ELSE cfg[key]]

\* No concurrent call has been made
ConcIdle == calls = <<>> /\ heap = <<>> /\ chain = <<>>

\* The disk layer is as loaded, and no operation of it has been called
DiskIdle ==
  /\ config = DefaultConfig
  /\ diskOp = None
  /\ fsLog = <<>>
  /\ returned = <<>>
  /\ apiLog = <<>>
  /\ batch = None

----------------------------------------------------------------------------
(* Inputs *)

SeqsUpTo(S, n) == UNION {[1..m -> S] : m \in 0..n}

\* The argument lists of a call: b1, ..., bn as separate arguments, or the one
\* array [b1, ..., bn].  The array-form mergePdfs takes the array only.
ArgLists(v) ==
  LET bufs == SeqsUpTo(SourceValues, MaxSources)
  IN  IF v = "array"
      THEN {<<Array(b)>> : b \in bufs}
      ELSE bufs \cup {<<Array(b)>> : b \in bufs}

Variants == {"variadic", "array", "fixed"}

Init ==
  /\ variant \in Variants
  /\ args \in ArgLists(variant)
  /\ pdfBuffers = <<>>
  /\ pc = "call"
  /\ idx = 0
  /\ target = <<>>
  /\ sourceDoc = <<>>
  /\ copiedPages = <<>>
  /\ k = 0
  /\ result = None
  /\ outcome = Pending
  /\ settled = 0
  /\ log = <<>>
  /\ docs = <<>>
  /\ results = <<>>
  /\ failure = None
  /\ ConcIdle
  /\ DiskIdle

----------------------------------------------------------------------------
(* Steps of one merge call *)

LibCall(op, src) == [op |-> op, src |-> src]

\* The library call op, made for source src, throws e
Throws(op, src, e) ==
  failure' = [op |-> op, src |-> src, error |-> e]

\* Mutation of Settle: the function ends and its promise is left pending
LeftPending(s) ==
  /\ outcome' = outcome
  /\ settled' = settled
  /\ pc' = "done"

\* The merge call settles with s
Settle(s) ==
  /\ outcome' = s
  /\ settled' = settled + 1
  /\ pc' = "done"

\* The catch block of the merge is entered with `error`
MergeCatch(error) == Settle(Rejected(WrapError(variant, error)))

\* The append step settles with r and control returns to the merge loop
AppendSettles(r) ==
  /\ result' = r
  /\ results' = Append(results, r)
  /\ pc' = "ret"

\* The for-of loop takes its next element and calls the append step, which
\* calls PDFDocument.load; after the last element the merge calls save().
NextIteration ==
  IF idx < Len(pdfBuffers)
  THEN /\ idx' = idx + 1
       /\ log' = Append(log, LibCall("load", idx + 1))
       /\ pc' = "load"
       /\ UNCHANGED <<outcome, settled>>
  ELSE /\ log' = Append(log, LibCall("save", 0))
       /\ pc' = "save"
       /\ UNCHANGED <<idx, outcome, settled>>

\* mergePdfs(...args): normalise the arguments, call PDFDocument.create()
Call ==
  /\ pc = "call"
  /\ pdfBuffers' = IF variant = "array" THEN FirstParameter(args)
                                        ELSE NormalizeArgs(args)
  /\ log' = Append(log, LibCall("create", 0))
  /\ pc' = "create"
  /\ UNCHANGED <<variant, args, idx, target, sourceDoc, copiedPages, k,
                 result, outcome, settled, docs, results, failure>>
  /\ UNCHANGED <<concVars, diskVars>>

\* await PDFDocument.create() settles
CreateSettles ==
  /\ pc = "create"
  /\ \/ NextIteration /\ UNCHANGED failure
     \/ /\ \E e \in Thrown("Failed to create PDF") :
             MergeCatch(e) /\ Throws("create", 0, e)
        /\ UNCHANGED <<idx, log>>
  /\ UNCHANGED <<variant, args, pdfBuffers, target, sourceDoc, copiedPages,
                 k, result, docs, results>>
  /\ UNCHANGED <<concVars, diskVars>>

\* await PDFDocument.load(sourceBuffer) settles, and the append step runs up
\* to its next await or return
LoadSettles ==
  /\ pc = "load"
  /\ LET buf == pdfBuffers[idx] IN
     \/ /\ IsBytes(buf)
        /\ \E n \in 0..MaxPages :
             /\ sourceDoc' = GetPageIndices(n)
             /\ docs' = Append(docs, n)
             /\ IF ReturnsEarlyOnEmpty(variant, GetPageIndices(n))
                THEN AppendSettles(Resolved(Success(0))) /\ UNCHANGED log
                ELSE /\ log' = Append(log, LibCall("copyPages", idx))
                     /\ pc' = "copy"
                     /\ UNCHANGED <<result, results>>
        /\ UNCHANGED failure
     \/ /\ \E e \in (IF IsBytes(buf) THEN Thrown("Failed to load PDF")
                      ELSE {LoadTypeError(buf)}) :
             AppendSettles(AppendCatch(variant, buf, e)) /\ Throws("load", idx, e)
        /\ docs' = Append(docs, -1)
        /\ UNCHANGED <<sourceDoc, log>>
  /\ UNCHANGED <<variant, args, pdfBuffers, idx, target, copiedPages, k,
                 outcome, settled>>
  /\ UNCHANGED <<concVars, diskVars>>

\* await targetDoc.copyPages(sourceDoc, pageIndices) settles
CopySettles ==
  /\ pc = "copy"
  /\ \/ /\ copiedPages' = CopyPagesResult(idx, sourceDoc)
        /\ k' = 0
        /\ pc' = "add"
        /\ UNCHANGED <<result, results, failure>>
     \/ /\ \E e \in Thrown("Failed to copy pages") :
             /\ AppendSettles(AppendCatch(variant, pdfBuffers[idx], e))
             /\ Throws("copyPages", idx, e)
        /\ UNCHANGED <<copiedPages, k>>
  /\ UNCHANGED <<variant, args, pdfBuffers, idx, target, sourceDoc, outcome,
                 settled, log, docs>>
  /\ UNCHANGED <<concVars, diskVars>>

\* Mutation of AddPage: the handles are added last to first
AddPageReversed ==
  /\ pc = "add"
  /\ k < Len(copiedPages)
  /\ log' = Append(log, LibCall("addPage", idx))
  /\ target' = Append(target, copiedPages[Len(copiedPages) - k])
  /\ k' = k + 1
  /\ UNCHANGED <<variant, args, pdfBuffers, pc, idx, sourceDoc, copiedPages,
                 result, outcome, settled, docs, results, failure>>
  /\ UNCHANGED <<concVars, diskVars>>

\* Mutation of AddPage: the page replaces the pages of the target
AddPageTruncating ==
  /\ pc = "add"
  /\ k < Len(copiedPages)
  /\ log' = Append(log, LibCall("addPage", idx))
  /\ target' = <<copiedPages[k + 1]>>
  /\ k' = k + 1
  /\ UNCHANGED <<variant, args, pdfBuffers, pc, idx, sourceDoc, copiedPages,
                 result, outcome, settled, docs, results, failure>>
  /\ UNCHANGED <<concVars, diskVars>>

\* copiedPages.forEach: one targetDoc.addPage(page)
AddPage ==
  /\ pc = "add"
  /\ k < Len(copiedPages)
  /\ log' = Append(log, LibCall("addPage", idx))
  /\ \/ /\ target' = Append(target, copiedPages[k + 1])
        /\ k' = k + 1
        /\ UNCHANGED <<pc, result, results, failure>>
     \/ /\ \E e \in Thrown("Failed to add page") :
             /\ AppendSettles(AppendCatch(variant, pdfBuffers[idx], e))
             /\ Throws("addPage", idx, e)
        /\ UNCHANGED <<target, k>>
  /\ UNCHANGED <<variant, args, pdfBuffers, idx, sourceDoc, copiedPages,
                 outcome, settled, docs>>
  /\ UNCHANGED <<concVars, diskVars>>

\* return { success: true, pagesAdded: copiedPages.length }
AppendReturns ==
  /\ pc = "add"
  /\ k = Len(copiedPages)
  /\ AppendSettles(Resolved(Success(Len(copiedPages))))
  /\ UNCHANGED <<variant, args, pdfBuffers, idx, target, sourceDoc,
                 copiedPages, k, outcome, settled, log, docs, failure>>
  /\ UNCHANGED <<concVars, diskVars>>

\* const result = await append(...) resumes in the merge loop
MergeResumes ==
  /\ pc = "ret"
  /\ IF result.state = "rejected"
     THEN MergeCatch(result.error) /\ UNCHANGED <<idx, log>>
     ELSE IF AppendFailed(result.value)
          THEN MergeCatch(result.value.error) /\ UNCHANGED <<idx, log>>
          ELSE NextIteration
  /\ UNCHANGED <<variant, args, pdfBuffers, target, sourceDoc, copiedPages,
                 k, result, docs, results, failure>>
  /\ UNCHANGED <<concVars, diskVars>>

\* await newPdfDoc.save() settles
SaveSettles ==
  /\ pc = "save"
  /\ \/ Settle(Resolved(Serialize(target))) /\ UNCHANGED failure
     \/ \E e \in Thrown("Failed to save merged PDF") :
          MergeCatch(e) /\ Throws("save", 0, e)
  /\ UNCHANGED <<variant, args, pdfBuffers, idx, target, sourceDoc,
                 copiedPages, k, result, log, docs, results>>
  /\ UNCHANGED <<concVars, diskVars>>

Next ==
  \/ Call
  \/ CreateSettles
  \/ LoadSettles
  \/ CopySettles
  \/ AddPage
  \/ AppendReturns
  \/ MergeResumes
  \/ SaveSettles

Spec == Init /\ [][Next]_vars

----------------------------------------------------------------------------
(* appendPdfs(sourceBuffer, targetBuffer) of src/src/pdf-utils.js.fixed.  *)
(* The target document is loaded from targetBuffer; its own pages are the *)
(* handles of source 0.  _appendPdfToDoc is the append step of the        *)
(* "fixed" variant above.                                                 *)

TargetValues == {SigBuffer, JunkBuffer, Null}

InitAppend ==
  /\ variant = "fixed"
  /\ args \in {<<s, t>> : s \in SourceValues, t \in TargetValues}
  /\ pdfBuffers = <<>>
  /\ pc = "call"
  /\ idx = 0
  /\ target = <<>>
  /\ sourceDoc = <<>>
  /\ copiedPages = <<>>
  /\ k = 0
  /\ result = None
  /\ outcome = Pending
  /\ settled = 0
  /\ log = <<>>
  /\ docs = <<>>
  /\ results = <<>>
  /\ failure = None
  /\ ConcIdle
  /\ DiskIdle

\* return { buffer: targetBuffer, success: false, error, pagesAdded: 0 }
AppendPdfsFailure(targetBuffer, error) ==
  [buffer |-> targetBuffer, success |-> FALSE, error |-> error, pagesAdded |-> 0]

\* return { buffer: resultBuffer, success: true, pagesAdded: result.pagesAdded }
AppendPdfsSuccess(resultBuffer, pagesAdded) ==
  [buffer |-> resultBuffer, success |-> TRUE, pagesAdded |-> pagesAdded]

\* appendPdfs(sourceBuffer, targetBuffer): call PDFDocument.load(targetBuffer)
AppendPdfsCall ==
  /\ pc = "call"
  /\ pdfBuffers' = <<args[1]>>
  /\ log' = Append(log, LibCall("load", 0))
  /\ pc' = "loadTarget"
  /\ UNCHANGED <<variant, args, idx, target, sourceDoc, copiedPages, k,
                 result, outcome, settled, docs, results, failure>>
  /\ UNCHANGED <<concVars, diskVars>>

\* await PDFDocument.load(targetBuffer) settles; on success _appendPdfToDoc
\* is called, which calls PDFDocument.load(sourceBuffer)
TargetLoadSettles ==
  /\ pc = "loadTarget"
  /\ \/ /\ IsBytes(args[2])
        /\ \E n \in 0..MaxPages :
             target' = CopyPagesResult(0, GetPageIndices(n))
        /\ idx' = 1
        /\ log' = Append(log, LibCall("load", 1))
        /\ pc' = "load"
        /\ UNCHANGED <<outcome, settled, failure>>
     \/ /\ \E e \in (IF IsBytes(args[2]) THEN Thrown("Failed to load target PDF")
                      ELSE {LoadTypeError(args[2])}) :
             /\ Settle(Resolved(AppendPdfsFailure(args[2], e)))
             /\ Throws("load", 0, e)
        /\ UNCHANGED <<idx, target, log>>
  /\ UNCHANGED <<variant, args, pdfBuffers, sourceDoc, copiedPages, k, result,
                 docs, results>>
  /\ UNCHANGED <<concVars, diskVars>>

\* const result = await _appendPdfToDoc(...) resumes in appendPdfs
AppendPdfsResumes ==
  /\ pc = "ret"
  /\ IF result.state = "rejected"
     THEN Settle(Resolved(AppendPdfsFailure(args[2], result.error)))
          /\ UNCHANGED log
     ELSE IF result.value.success
          THEN /\ log' = Append(log, LibCall("save", 0))
               /\ pc' = "save"
               /\ UNCHANGED <<outcome, settled>>
          ELSE Settle(Resolved(AppendPdfsFailure(args[2], result.value.error)))
               /\ UNCHANGED log
  /\ UNCHANGED <<variant, args, pdfBuffers, idx, target, sourceDoc,
                 copiedPages, k, result, docs, results, failure>>
  /\ UNCHANGED <<concVars, diskVars>>

\* await targetDoc.save() settles
AppendPdfsSaveSettles ==
  /\ pc = "save"
  /\ \/ /\ Settle(Resolved(AppendPdfsSuccess(Serialize(target),
                                             result.value.pagesAdded)))
        /\ UNCHANGED failure
     \/ \E e \in Thrown("Failed to save PDF") :
          /\ Settle(Resolved(AppendPdfsFailure(args[2], e)))
          /\ Throws("save", 0, e)
  /\ UNCHANGED <<variant, args, pdfBuffers, idx, target, sourceDoc,
                 copiedPages, k, result, log, docs, results>>
  /\ UNCHANGED <<concVars, diskVars>>

NextAppend ==
  \/ AppendPdfsCall
  \/ TargetLoadSettles
  \/ LoadSettles
  \/ CopySettles
  \/ AddPage
  \/ AppendReturns
  \/ AppendPdfsResumes
  \/ AppendPdfsSaveSettles

SpecAppend == InitAppend /\ [][NextAppend]_vars

----------------------------------------------------------------------------
(* Several calls of the variadic mergePdfs of src/src/pdf-utils.js in     *)
(* flight at once.  Each call has its own locals (a record of `calls`);   *)
(* the documents PDFDocument.create() returns live in `heap`, and a call  *)
(* holds the index of its own as newPdfDoc.  A step runs one call from the *)
(* settlement of the promise it awaits to its next await, so the forEach  *)
(* over copiedPages, which has no await, is part of one step.  The library *)
(* is a function of what it is given, as in the tests: a buffer either    *)
(* loads, always with the same pages, or fails to load, always the same   *)
(* way; create, copyPages, addPage and save succeed.                      *)

MaxCalls == 2

\* The merge variables are not in use
MergeIdle ==
  /\ variant = "variadic"
  /\ args = <<>>
  /\ pdfBuffers = <<>>
  /\ pc = "idle"
  /\ idx = 0
  /\ target = <<>>
  /\ sourceDoc = <<>>
  /\ copiedPages = <<>>
  /\ k = 0
  /\ result = None
  /\ outcome = Pending
  /\ settled = 0
  /\ log = <<>>
  /\ docs = <<>>
  /\ results = <<>>
  /\ failure = None

\* The buffer sequences merged: none, one that loads, two that load, and a
\* buffer that fails to load after or before one that loads
ConcBufferLists ==
  {<<>>, <<SigBuffer>>, <<SigBuffer, SigBuffer>>, <<SigBuffer, JunkBuffer>>,
   <<JunkBuffer, SigBuffer>>}

\* Each sequence in both calling conventions
ConcArgLists == ConcBufferLists \cup {<<Array(b)>> : b \in ConcBufferLists}

\* PDFDocument.load(buf): a document of two pages, or the rejection
LoadOf(buf) ==
  IF ~IsBytes(buf) THEN [ok |-> FALSE, error |-> LoadTypeError(buf)]
  ELSE IF buf = JunkBuffer
       THEN [ok |-> FALSE, error |-> Err("Failed to load source PDF")]
       ELSE [ok |-> TRUE, pageIndices |-> GetPageIndices(2)]

\* The locals of a call mergePdfs(...a) that has not run yet
NewCall(a) ==
  [args |-> a, pdfBuffers |-> <<>>, pc |-> "call", idx |-> 0, newPdfDoc |-> 0,
   sourceDoc |-> <<>>, result |-> None, outcome |-> Pending, loads |-> <<>>]

InitConc ==
  /\ calls \in [1..MaxCalls -> {NewCall(a) : a \in ConcArgLists}]
  /\ heap = <<>>
  /\ chain = <<>>
  /\ MergeIdle
  /\ DiskIdle

\* Mutation of NewDocument: the target document is one object of the module,
\* created by the first call and used by every call
SharedDocument(h) == 1

\* PDFDocument.create(): a new document, at the next index of the heap
NewDocument(h) == Len(h) + 1

\* The pages targetDoc.copyPages(sourceDoc, indices) resolves to, for call c
\* and its source number src
ConcCopyPages(c, src, indices) ==
  [p \in 1..Len(indices) |-> [call |-> c, src |-> src, page |-> indices[p]]]

\* What save() serializes of a page: the page's content, that of page
\* number h.page of the document loaded from the buffer it was copied from
PageContent(h) == [bytes |-> calls[h.call].pdfBuffers[h.src], page |-> h.page]

\* The locals of a call whose for-of loop takes its next element and calls
\* the append step, which calls PDFDocument.load; after the last element
\* the merge calls save()
ConcNextIteration(r) ==
  IF r.idx < Len(r.pdfBuffers)
  THEN [r EXCEPT !.idx = r.idx + 1, !.pc = "load",
                 !.loads = Append(r.loads, r.pdfBuffers[r.idx + 1])]
  ELSE [r EXCEPT !.pc = "save"]

\* mergePdfs(...args) of call c: normalise the arguments, call create()
ConcCall(c) ==
  /\ calls[c].pc = "call"
  /\ LET r == calls[c] IN
       calls' = [calls EXCEPT ![c] =
         [r EXCEPT !.pdfBuffers = NormalizeArgs(r.args), !.pc = "create"]]
  /\ UNCHANGED <<heap, chain, mergeVars, diskVars>>

\* await PDFDocument.create() settles in call c
ConcCreateSettles(c) ==
  /\ calls[c].pc = "create"
  /\ LET d == NewDocument(heap) IN
       /\ heap' = IF d > Len(heap) THEN Append(heap, <<>>) ELSE heap
       /\ calls' = [calls EXCEPT
                      ![c] = ConcNextIteration([@ EXCEPT !.newPdfDoc = d])]
  /\ UNCHANGED <<chain, mergeVars, diskVars>>

\* await PDFDocument.load(sourceBuffer) settles in call c
ConcLoadSettles(c) ==
  /\ calls[c].pc = "load"
  /\ LET r == calls[c]
         buf == r.pdfBuffers[r.idx]
         loaded == LoadOf(buf)
     IN  calls' = [calls EXCEPT ![c] =
           IF ~loaded.ok
           THEN [r EXCEPT !.result = AppendPdfPagesCatch(buf, loaded.error),
                          !.pc = "ret"]
           ELSE IF ReturnsEarlyOnEmpty("variadic", loaded.pageIndices)
                THEN [r EXCEPT !.result = Resolved(Success(0)), !.pc = "ret"]
                ELSE [r EXCEPT !.sourceDoc = loaded.pageIndices, !.pc = "copy"]]
  /\ UNCHANGED <<heap, chain, mergeVars, diskVars>>

\* await targetDoc.copyPages(...) settles in call c: every page is added to
\* the call's target document and the append step returns
ConcCopySettles(c) ==
  /\ calls[c].pc = "copy"
  /\ LET r == calls[c]
         copied == ConcCopyPages(c, r.idx, r.sourceDoc)
     IN  /\ heap' = [heap EXCEPT ![r.newPdfDoc] = @ \o copied]
         /\ calls' = [calls EXCEPT ![c] =
               [r EXCEPT !.result = Resolved(Success(Len(copied))), !.pc = "ret"]]
  /\ UNCHANGED <<chain, mergeVars, diskVars>>

\* const result = await appendPdfPages(...) resumes in call c
ConcMergeResumes(c) ==
  /\ calls[c].pc = "ret"
  /\ LET r == calls[c] IN
       calls' = [calls EXCEPT ![c] =
         IF AppendFailed(r.result.value)
         THEN [r EXCEPT !.outcome = Rejected(WrapWithFallback(r.result.value.error)),
                        !.pc = "done"]
         ELSE ConcNextIteration(r)]
  /\ UNCHANGED <<heap, chain, mergeVars, diskVars>>

\* await newPdfDoc.save() settles in call c
ConcSaveSettles(c) ==
  /\ calls[c].pc = "save"
  /\ LET r == calls[c] IN
       calls' = [calls EXCEPT ![c] =
         [r EXCEPT !.outcome = Resolved(Serialize(
                     [i \in 1..Len(heap[r.newPdfDoc]) |->
                        PageContent(heap[r.newPdfDoc][i])])),
                   !.pc = "done"]]
  /\ UNCHANGED <<heap, chain, mergeVars, diskVars>>

NextConc ==
  \/ \E c \in DOMAIN calls : ConcCall(c)
  \/ \E c \in DOMAIN calls : ConcCreateSettles(c)
  \/ \E c \in DOMAIN calls : ConcLoadSettles(c)
  \/ \E c \in DOMAIN calls : ConcCopySettles(c)
  \/ \E c \in DOMAIN calls : ConcMergeResumes(c)
  \/ \E c \in DOMAIN calls : ConcSaveSettles(c)

SpecConc == InitConc /\ [][NextConc]_vars

----------------------------------------------------------------------------
(* The reduce-based mergePdfs(pdfBuffers) of src/unnamed/part_000.  After  *)
(* PDFDocument.create() the call runs pdfBuffers.reduce over an async      *)
(* reducer: all the reducer callbacks are called at once, each gets the    *)
(* promise of the one before it and awaits it first.  `chain` holds the    *)
(* callbacks, each with its position, its locals and the promise it        *)
(* returned; any callback whose await has settled may take its next step.  *)

\* What is given as pdfBuffers: arrays of sources, and values that are not
\* arrays
ReduceInputs ==
  {Array(b) : b \in SeqsUpTo(SourceValues, MaxSources)}
    \cup {SigBuffer, Null, Undefined}

InitReduce ==
  /\ variant = "reduce"
  /\ args \in {<<v>> : v \in ReduceInputs}
  /\ pdfBuffers = <<>>
  /\ pc = "call"
  /\ idx = 0
  /\ target = <<>>
  /\ sourceDoc = <<>>
  /\ copiedPages = <<>>
  /\ k = 0
  /\ result = None
  /\ outcome = Pending
  /\ settled = 0
  /\ log = <<>>
  /\ docs = <<>>
  /\ results = <<>>
  /\ failure = None
  /\ ConcIdle
  /\ DiskIdle

\* Mutation of InvalidInput: the input is not tested
InputNotTested(v) == FALSE

\* !Array.isArray(pdfBuffers) || pdfBuffers.length === 0
InvalidInput(v) == ~IsArray(v) \/ Len(v.items) = 0

\* The elements reduce iterates
ItemsOf(v) == IF IsArray(v) THEN v.items ELSE <<>>

\* A reducer callback as reduce has called it: at await previousPromise
NewCallback ==
  [pc |-> "previous", sourceDoc |-> <<>>, result |-> None, promise |-> Pending]

\* Mutation of PreviousPromise: the callback does not wait for the one
\* before it
NoPreviousPromise(ch, i) == Resolved(Undefined)

\* previousPromise of callback i: Promise.resolve() for the first, the
\* promise the callback before it returned for the others
PreviousPromise(ch, i) == IF i = 1 THEN Resolved(Undefined) ELSE ch[i - 1].promise

\* catch block of the reduce-based mergePdfs
ReduceCatch(error) == Settle(Rejected(WrapWithTemplate(error)))

\* mergePdfs(pdfBuffers): the test of the input, then PDFDocument.create()
ReduceCall ==
  /\ pc = "call"
  /\ IF InvalidInput(args[1])
     THEN /\ Settle(Rejected(Err("Input must be a non-empty array of PDF buffers.")))
          /\ UNCHANGED <<pdfBuffers, log>>
     ELSE /\ pdfBuffers' = ItemsOf(args[1])
          /\ log' = Append(log, LibCall("create", 0))
          /\ pc' = "create"
          /\ UNCHANGED <<outcome, settled>>
  /\ UNCHANGED <<variant, args, idx, target, sourceDoc, copiedPages, k,
                 result, docs, results, failure>>
  /\ UNCHANGED <<concVars, diskVars>>

\* await PDFDocument.create() settles; reduce calls every callback, and the
\* call awaits the promise of the last
ReduceCreateSettles ==
  /\ pc = "create"
  /\ \/ /\ chain' = [i \in 1..Len(pdfBuffers) |-> NewCallback]
        /\ pc' = "reduce"
        /\ UNCHANGED <<outcome, settled, failure>>
     \/ /\ \E e \in Thrown("Failed to create PDF") :
             ReduceCatch(e) /\ Throws("create", 0, e)
        /\ UNCHANGED chain
  /\ UNCHANGED <<variant, args, pdfBuffers, idx, target, sourceDoc,
                 copiedPages, k, result, log, docs, results>>
  /\ UNCHANGED <<calls, heap, diskVars>>

\* await previousPromise settles in callback i: it throws what the promise
\* rejected with, or calls appendPdfPages, which calls PDFDocument.load
CallbackResumes(i) ==
  /\ chain[i].pc = "previous"
  /\ LET previous == PreviousPromise(chain, i) IN
     /\ previous.state # "pending"
     /\ IF previous.state = "rejected"
        THEN /\ chain' = [chain EXCEPT ![i].pc = "settled",
                                       ![i].promise = previous]
             /\ UNCHANGED log
        ELSE /\ chain' = [chain EXCEPT ![i].pc = "load"]
             /\ log' = Append(log, LibCall("load", i))
  /\ UNCHANGED <<variant, args, pdfBuffers, pc, idx, target, sourceDoc,
                 copiedPages, k, result, outcome, settled, docs, results,
                 failure>>
  /\ UNCHANGED <<calls, heap, diskVars>>

\* catch block of appendPdfPages of part_000
ReduceAppendCatch(error) == [success |-> FALSE, error |-> error]

\* appendPdfPages of callback i returns r
ReduceAppendReturns(i, r) ==
  /\ chain' = [chain EXCEPT ![i].pc = "returned", ![i].result = r]
  /\ results' = Append(results, r)

\* await PDFDocument.load(pdfBuffer) settles in the append of callback i
CallbackLoadSettles(i) ==
  /\ chain[i].pc = "load"
  /\ LET buf == pdfBuffers[i] IN
     \/ /\ IsBytes(buf)
        /\ \E n \in 0..MaxPages :
             /\ chain' = [chain EXCEPT ![i].pc = "copy",
                                       ![i].sourceDoc = GetPageIndices(n)]
             /\ docs' = Append(docs, n)
        /\ log' = Append(log, LibCall("copyPages", i))
        /\ UNCHANGED <<results, failure>>
     \/ /\ \E e \in (IF IsBytes(buf) THEN Thrown("Failed to load PDF")
                      ELSE {LoadTypeError(buf)}) :
             /\ ReduceAppendReturns(i, ReduceAppendCatch(e))
             /\ Throws("load", i, e)
        /\ docs' = Append(docs, -1)
        /\ UNCHANGED log
  /\ UNCHANGED <<variant, args, pdfBuffers, pc, idx, target, sourceDoc,
                 copiedPages, k, result, outcome, settled>>
  /\ UNCHANGED <<calls, heap, diskVars>>

\* await targetDoc.copyPages(...) settles in the append of callback i; the
\* forEach of addPage has no await
CallbackCopySettles(i) ==
  /\ chain[i].pc = "copy"
  /\ LET copied == CopyPagesResult(i, chain[i].sourceDoc)
         added(n) == [c \in 1..n |-> LibCall("addPage", i)]
     IN  \/ /\ target' = target \o copied
            /\ log' = log \o added(Len(copied))
            /\ ReduceAppendReturns(i, Success(Len(copied)))
            /\ UNCHANGED failure
         \/ \E j \in 1..Len(copied), e \in Thrown("Failed to add page") :
              /\ target' = target \o SubSeq(copied, 1, j - 1)
              /\ log' = log \o added(j)
              /\ ReduceAppendReturns(i, ReduceAppendCatch(e))
              /\ Throws("addPage", i, e)
         \/ \E e \in Thrown("Failed to copy pages") :
              /\ ReduceAppendReturns(i, ReduceAppendCatch(e))
              /\ Throws("copyPages", i, e)
              /\ UNCHANGED <<target, log>>
  /\ UNCHANGED <<variant, args, pdfBuffers, pc, idx, sourceDoc, copiedPages,
                 k, result, outcome, settled, docs>>
  /\ UNCHANGED <<calls, heap, diskVars>>

\* const result = await appendPdfPages(...) resumes in callback i:
\* throw result.error, or return Promise.resolve()
CallbackSettles(i) ==
  /\ chain[i].pc = "returned"
  /\ chain' = [chain EXCEPT
       ![i].pc = "settled",
       ![i].promise = IF chain[i].result.success THEN Resolved(Undefined)
                      ELSE Rejected(chain[i].result.error)]
  /\ UNCHANGED <<mergeVars, calls, heap, diskVars>>

\* await pdfBuffers.reduce(...) settles: mainDoc.save() is called, or the
\* catch block is entered
ReduceResumes ==
  /\ pc = "reduce"
  /\ LET last == chain[Len(chain)].promise IN
     /\ last.state # "pending"
     /\ IF last.state = "rejected"
        THEN ReduceCatch(last.error) /\ UNCHANGED log
        ELSE /\ log' = Append(log, LibCall("save", 0))
             /\ pc' = "save"
             /\ UNCHANGED <<outcome, settled>>
  /\ UNCHANGED <<variant, args, pdfBuffers, idx, target, sourceDoc,
                 copiedPages, k, result, docs, results, failure>>
  /\ UNCHANGED <<concVars, diskVars>>

\* await mainDoc.save() settles
ReduceSaveSettles ==
  /\ pc = "save"
  /\ \/ Settle(Resolved(Serialize(target))) /\ UNCHANGED failure
     \/ \E e \in Thrown("Failed to save merged PDF") :
          ReduceCatch(e) /\ Throws("save", 0, e)
  /\ UNCHANGED <<variant, args, pdfBuffers, idx, target, sourceDoc,
                 copiedPages, k, result, log, docs, results>>
  /\ UNCHANGED <<concVars, diskVars>>

NextReduce ==
  \/ ReduceCall
  \/ ReduceCreateSettles
  \/ \E i \in DOMAIN chain : CallbackResumes(i)
  \/ \E i \in DOMAIN chain : CallbackLoadSettles(i)
  \/ \E i \in DOMAIN chain : CallbackCopySettles(i)
  \/ \E i \in DOMAIN chain : CallbackSettles(i)
  \/ ReduceResumes
  \/ ReduceSaveSettles

SpecReduce == InitReduce /\ [][NextReduce]_vars

----------------------------------------------------------------------------
(* mergePdfsInMemory of src/unnamed/part_002: the merge that passes over   *)
(* the buffers that are null, undefined or empty.  Loading, copying and    *)
(* adding the pages of one buffer are in one inner try block, inside the   *)
(* try block of the function.                                              *)

\* Bound of the model: number of buffers of one call
MaxBuffers == 3

EmptyBuffer == Buffer(<<>>)

\* What is given as one of the pdfBuffers
InMemoryValues == SourceValues \cup {EmptyBuffer}

InitInMemory ==
  /\ variant = "skipping"
  /\ args \in SeqsUpTo(InMemoryValues, MaxBuffers)
  /\ pdfBuffers = <<>>
  /\ pc = "call"
  /\ idx = 0
  /\ target = <<>>
  /\ sourceDoc = <<>>
  /\ copiedPages = <<>>
  /\ k = 0
  /\ result = None
  /\ outcome = Pending
  /\ settled = 0
  /\ log = <<>>
  /\ docs = <<>>
  /\ results = <<>>
  /\ failure = None
  /\ ConcIdle
  /\ DiskIdle

\* Mutation of HasContent: every buffer is taken
EveryBufferTaken(pdfBuffer) == TRUE

\* pdfBuffer && pdfBuffer.length > 0
HasContent(pdfBuffer) ==
  CASE IsNullish(pdfBuffer) -> FALSE
    [] IsBytes(pdfBuffer) -> Len(pdfBuffer.bytes) > 0
    [] IsArray(pdfBuffer) -> Len(pdfBuffer.items) > 0
    [] pdfBuffer.t = "string" -> Len(pdfBuffer.s) > 0
    [] OTHER -> FALSE

\* The position of the first buffer after position i the loop does not pass
\* over, 0 if there is none
NextTaken(bufs, i) ==
  LET taken == {j \in (i + 1)..Len(bufs) : HasContent(bufs[j])}
  IN  IF taken = {} THEN 0
      ELSE CHOOSE j \in taken : \A h \in taken : j <= h

\* The TypeError Buffer.from throws on null or undefined
BufferFromTypeError(v) ==
  Err("The first argument must be of type string or an instance of Buffer, ArrayBuffer, or Array or an Array-like Object. Received "
      \o v.t)

\* catch (loadError) of the inner try block: what it throws
InMemoryLoadCatch(loadError) ==
  IF IsNullish(loadError)
  THEN PropertyTypeError(loadError, "message")
  ELSE Err("Failed to load one of the PDF buffers: "
           \o ToStr(MessageOf(loadError)))

\* catch (error) of the function: what the call rejects with
InMemoryCatch(error) ==
  Settle(Rejected(IF IsNullish(error)
                  THEN PropertyTypeError(error, "message")
                  ELSE Err("mergePdfsInMemory failed: "
                           \o ToStr(MessageOf(error)))))

\* The for-of loop goes to the next buffer that has content, and calls
\* PDFDocument.load with it; after the last buffer the function calls save().
\* `made` is the log of the library calls made so far.
InMemoryNextIteration(made) ==
  LET j == NextTaken(pdfBuffers, idx) IN
  IF j = 0
  THEN /\ idx' = Len(pdfBuffers)
       /\ log' = Append(made, LibCall("save", 0))
       /\ pc' = "save"
       /\ UNCHANGED <<outcome, settled, failure>>
  ELSE /\ idx' = j
       /\ IF IsNullish(pdfBuffers[j])
          THEN /\ InMemoryCatch(InMemoryLoadCatch(BufferFromTypeError(pdfBuffers[j])))
               /\ Throws("Buffer.from", j, BufferFromTypeError(pdfBuffers[j]))
               /\ log' = made
          ELSE /\ log' = Append(made, LibCall("load", j))
               /\ pc' = "load"
               /\ UNCHANGED <<outcome, settled, failure>>

\* mergePdfsInMemory(...pdfBuffers): PDFDocument.create() is called
InMemoryCall ==
  /\ pc = "call"
  /\ pdfBuffers' = args
  /\ log' = Append(log, LibCall("create", 0))
  /\ pc' = "create"
  /\ UNCHANGED <<variant, args, idx, target, sourceDoc, copiedPages, k,
                 result, outcome, settled, docs, results, failure>>
  /\ UNCHANGED <<concVars, diskVars>>

\* await PDFDocument.create() settles
InMemoryCreateSettles ==
  /\ pc = "create"
  /\ \/ InMemoryNextIteration(log)
     \/ /\ \E e \in Thrown("Failed to create PDF") :
             InMemoryCatch(e) /\ Throws("create", 0, e)
        /\ UNCHANGED <<idx, log>>
  /\ UNCHANGED <<variant, args, pdfBuffers, target, sourceDoc, copiedPages,
                 k, result, docs, results>>
  /\ UNCHANGED <<concVars, diskVars>>

\* await PDFDocument.load(currentPdfBuffer, { ignoreEncryption: true })
\* settles
InMemoryLoadSettles ==
  /\ pc = "load"
  /\ \/ /\ \E n \in 0..MaxPages :
             /\ sourceDoc' = GetPageIndices(n)
             /\ docs' = Append(docs, n)
        /\ log' = Append(log, LibCall("copyPages", idx))
        /\ pc' = "copy"
        /\ UNCHANGED <<outcome, settled, failure>>
     \/ /\ \E e \in Thrown("Failed to load PDF") :
             InMemoryCatch(InMemoryLoadCatch(e)) /\ Throws("load", idx, e)
        /\ docs' = Append(docs, -1)
        /\ UNCHANGED <<sourceDoc, log>>
  /\ UNCHANGED <<variant, args, pdfBuffers, idx, target, copiedPages, k,
                 result, results>>
  /\ UNCHANGED <<concVars, diskVars>>

\* await mergedPdf.copyPages(pdf, pdf.getPageIndices()) settles; the forEach
\* of addPage has no await, and the loop goes on
InMemoryCopySettles ==
  /\ pc = "copy"
  /\ LET copied == CopyPagesResult(idx, sourceDoc)
         added(n) == [c \in 1..n |-> LibCall("addPage", idx)]
     IN  \/ /\ target' = target \o copied
            /\ copiedPages' = copied
            /\ InMemoryNextIteration(log \o added(Len(copied)))
         \/ \E n \in 1..Len(copied), e \in Thrown("Failed to add page") :
              /\ target' = target \o SubSeq(copied, 1, n - 1)
              /\ copiedPages' = copied
              /\ log' = log \o added(n)
              /\ InMemoryCatch(InMemoryLoadCatch(e))
              /\ Throws("addPage", idx, e)
              /\ UNCHANGED idx
         \/ \E e \in Thrown("Failed to copy pages") :
              /\ InMemoryCatch(InMemoryLoadCatch(e))
              /\ Throws("copyPages", idx, e)
              /\ UNCHANGED <<idx, target, copiedPages, log>>
  /\ UNCHANGED <<variant, args, pdfBuffers, sourceDoc, k, result, docs,
                 results>>
  /\ UNCHANGED <<concVars, diskVars>>

\* await mergedPdf.save() settles: return Buffer.from(...) of the bytes
InMemorySaveSettles ==
  /\ pc = "save"
  /\ \/ Settle(Resolved(Serialize(target))) /\ UNCHANGED failure
     \/ \E e \in Thrown("Failed to save merged PDF") :
          InMemoryCatch(e) /\ Throws("save", 0, e)
  /\ UNCHANGED <<variant, args, pdfBuffers, idx, target, sourceDoc,
                 copiedPages, k, result, log, docs, results>>
  /\ UNCHANGED <<concVars, diskVars>>

NextInMemory ==
  \/ InMemoryCall
  \/ InMemoryCreateSettles
  \/ InMemoryLoadSettles
  \/ InMemoryCopySettles
  \/ InMemorySaveSettles

SpecInMemory == InitInMemory /\ [][NextInMemory]_vars

----------------------------------------------------------------------------
(* One merge call of any of the implementations above, the loop-based ones *)
(* and the reduce-based one, where every call into the PDF library         *)
(* settles: a step that can be taken is eventually taken.                  *)

InitSettles == Init \/ InitReduce

NextSettles ==
  \/ variant \in Variants /\ Next
  \/ variant = "reduce" /\ NextReduce

SpecSettles == InitSettles /\ [][NextSettles]_vars /\ WF_vars(NextSettles)

----------------------------------------------------------------------------
(* The API of src/src/index.js over the functions exported by             *)
(* src/src/pdf-utils.js.fixed: configure, savePdf, ensureDirectoryExists  *)
(* and mergePdfs; and mergePdfsFromDisk of pdf-utils.js.fixed, called     *)
(* directly.  pdf-utils.js.fixed exports mergePdfsInMemory as mergePdfs,  *)
(* so index.js mergePdfs passes its one object {pdfPaths, outputPath,     *)
(* allowOutsideBaseDir} to the in-memory merge as a source buffer.        *)
(* configure is called up to MaxConfigures times, then one operation is   *)
(* called.  The in-memory merge is mergePdfsInMemory, the "fixed" variant *)
(* above, run by its own steps; when it has settled only its outcome is   *)
(* kept.  fs is the environment: each of its calls succeeds or fails.     *)

MaxConfigures == 2

\* module.exports of index.js
ModuleExports == [t |-> "module.exports"]

\* What a function that is not async returned
Returned(v) == [state |-> "returned", value |-> v]

\* configure() and configure({}): no key
NoOptions == [key \in {} |-> FALSE]

\* The options passed to configure
ConfigureOptions ==
  {NoOptions,
   [baseDir |-> OtherDir],
   [baseDir |-> Cwd, allowOutsideBaseDir |-> TRUE],
   [createDirsIfMissing |-> FALSE]}

\* Output paths: relative, relative and leaving the base directory,
\* absolute inside process.cwd(), absolute outside every base directory
OutputPaths ==
  {Path(FALSE, <<"out", "m.pdf">>), Path(FALSE, <<"..", "m.pdf">>),
   Path(TRUE, <<"work", "out", "m.pdf">>), Path(TRUE, <<"etc", "m.pdf">>)}

\* Output paths of the disk merge
MergeOutputPaths ==
  {Path(FALSE, <<"out", "m.pdf">>), Path(TRUE, <<"etc", "m.pdf">>)}

DirPaths == {Path(FALSE, <<"out">>), Path(TRUE, <<"etc", "pdf">>)}

\* Lists of files to merge
PathLists ==
  {<<>>, <<Path(FALSE, <<"a.pdf">>)>>,
   <<Path(FALSE, <<"a.pdf">>), Path(TRUE, <<"data", "b.pdf">>)>>}

\* What fs.readFile resolves to for a path: a.pdf starts with %PDF-, the
\* other files do not
FileContent(p) ==
  IF p.segs[Len(p.segs)] = "a.pdf" THEN SigBuffer ELSE JunkBuffer

\* What a failing fs call rejects with
FsError(call) == Err("EACCES: permission denied, " \o call)

InitDisk ==
  /\ MergeIdle
  /\ ConcIdle
  /\ DiskIdle

\* The locals of a disk operation, before its first statement
NewOp(name) ==
  [name |-> name, call |-> Len(apiLog) + 1, pc |-> "", outputPath |-> None,
   allowOutsideBaseDir |-> FALSE, pdfPaths |-> <<>>, pdfBuffers |-> <<>>,
   pdfBuffer |-> None, dirPath |-> None, mkdirError |-> None,
   dirResult |-> None]

\* The call of the API being made, with the configuration it finds
ApiCall(name, params) ==
  apiLog' = Append(apiLog, [name |-> name, params |-> params, config |-> config])

\* The call of the API numbered `call` returns or settles with r
Return(call, r) == returned' = Append(returned, [call |-> call, result |-> r])

\* An operation of the disk layer was called already
OpCalled == \E i \in 1..Len(apiLog) : apiLog[i].name # "configure"

\* function configure(options = {})
Configure ==
  /\ Len(SelectSeq(apiLog, LAMBDA a : a.name = "configure")) < MaxConfigures
  /\ \E options \in ConfigureOptions :
       /\ config' = Override(config, options)
       /\ ApiCall("configure", options)
  /\ Return(Len(apiLog) + 1, Returned(ModuleExports))
  /\ ~OpCalled
  /\ UNCHANGED <<batch, diskOp, fsLog, mergeVars, concVars>>

\* savePdf({ pdfBuffer, outputPath, allowOutsideBaseDir }) of pdf-utils up
\* to its first await: ensureDirectoryExists has called fs.mkdir
SavePdfStarts(o, pdfBuffer, outputPath, allowOutsideBaseDir) ==
  [o EXCEPT !.pc = "mkdir", !.pdfBuffer = pdfBuffer,
            !.outputPath = outputPath,
            !.allowOutsideBaseDir = allowOutsideBaseDir,
            !.dirPath = Dirname(outputPath)]

\* mergePdfsInMemory(pdfBuffers) up to its first await, as Call does it
MergeStarts(a) ==
  /\ variant' = "fixed"
  /\ args' = a
  /\ pdfBuffers' = NormalizeArgs(a)
  /\ pc' = "create"
  /\ idx' = 0
  /\ target' = <<>>
  /\ sourceDoc' = <<>>
  /\ copiedPages' = <<>>
  /\ k' = 0
  /\ result' = None
  /\ outcome' = Pending
  /\ settled' = 0
  /\ log' = <<LibCall("create", 0)>>
  /\ docs' = <<>>
  /\ results' = <<>>
  /\ failure' = None

\* Mutation of MergePdfsFromDiskCatch: the error is thrown again
MergePdfsFromDiskRethrows(outputPath, error) == Rejected(error)

\* catch block of mergePdfsFromDisk: what the call settles with
MergePdfsFromDiskCatch(outputPath, error) ==
  IF IsNullish(error)
  THEN Rejected(PropertyTypeError(error, "message"))
  ELSE Resolved([success |-> FALSE, path |-> outputPath,
                 error |-> Err(FailedToMerge \o
                   (IF Truthy(MessageOf(error)) THEN ToStr(MessageOf(error))
                                                 ELSE "Unknown error"))])

\* index.js savePdf({ pdfBuffer, outputPath })
SavePdfCalled ==
  /\ diskOp = None /\ ~OpCalled
  /\ \E outputPath \in OutputPaths :
       /\ ApiCall("savePdf", [pdfBuffer |-> SigBuffer, outputPath |-> outputPath])
       /\ diskOp' = SavePdfStarts(NewOp("savePdf"), SigBuffer,
                                  ResolveFrom(config.baseDir, outputPath),
                                  config.allowOutsideBaseDir)
  /\ UNCHANGED <<batch, config, fsLog, returned, mergeVars, concVars>>

\* index.js ensureDirectoryExists({ dirPath })
EnsureDirectoryExistsCalled ==
  /\ diskOp = None /\ ~OpCalled
  /\ \E dirPath \in DirPaths :
       /\ ApiCall("ensureDirectoryExists", [dirPath |-> dirPath])
       /\ IF ~config.createDirsIfMissing
          THEN /\ Return(Len(apiLog) + 1, Returned(
                    [success |-> FALSE,
                     error |-> Err("Directory creation disabled in configuration")]))
               /\ UNCHANGED diskOp
          ELSE /\ diskOp' = [NewOp("ensureDirectoryExists") EXCEPT
                              !.pc = "mkdir",
                              !.dirPath = ResolveFrom(config.baseDir, dirPath)]
               /\ UNCHANGED returned
  /\ UNCHANGED <<batch, config, fsLog, mergeVars, concVars>>

\* The locals of mergePdfsInMemory are gone; its outcome stays
MergeEnds ==
  /\ pc' = "idle"
  /\ pdfBuffers' = <<>>
  /\ idx' = 0
  /\ target' = <<>>
  /\ sourceDoc' = <<>>
  /\ copiedPages' = <<>>
  /\ k' = 0
  /\ result' = None
  /\ log' = <<>>
  /\ docs' = <<>>
  /\ results' = <<>>
  /\ failure' = None
  /\ UNCHANGED <<variant, args, outcome, settled>>

\* The object index.js mergePdfs passes to pdfUtils.mergePdfs
MergeParams(pdfPaths, outputPath, allowOutsideBaseDir) ==
  [t |-> "object", pdfPaths |-> pdfPaths, outputPath |-> outputPath,
   allowOutsideBaseDir |-> allowOutsideBaseDir]

\* index.js mergePdfs({ pdfPaths, outputPath }): the paths are resolved and
\* pdfUtils.mergePdfs, which is mergePdfsInMemory, is called with the one
\* object, up to its first await
MergePdfsCalled ==
  /\ diskOp = None /\ ~OpCalled
  /\ \E pdfPaths \in PathLists, outputPath \in MergeOutputPaths :
       LET resolvedPaths == [i \in 1..Len(pdfPaths) |->
                               ResolveFrom(config.baseDir, pdfPaths[i])]
           resolvedOutput == ResolveFrom(config.baseDir, outputPath)
       IN  /\ ApiCall("mergePdfs", [pdfPaths |-> pdfPaths, outputPath |-> outputPath])
           /\ diskOp' = [NewOp("mergePdfs") EXCEPT
                           !.pc = "merge",
                           !.pdfPaths = resolvedPaths,
                           !.outputPath = resolvedOutput,
                           !.allowOutsideBaseDir = config.allowOutsideBaseDir]
           /\ MergeStarts(<<MergeParams(resolvedPaths, resolvedOutput,
                                        config.allowOutsideBaseDir)>>)
  /\ UNCHANGED <<batch, config, fsLog, returned, concVars>>

\* return pdfUtils.mergePdfs(...) of index.js: the call settles as the
\* in-memory merge has settled
MergePdfsSettles ==
  /\ diskOp # None /\ diskOp.name = "mergePdfs" /\ diskOp.pc = "merge"
  /\ pc = "done"
  /\ Return(diskOp.call, outcome)
  /\ diskOp' = None
  /\ MergeEnds
  /\ UNCHANGED <<batch, config, fsLog, apiLog, concVars>>

\* mergePdfsFromDisk({ pdfPaths, outputPath }) of pdf-utils up to its first
\* await: fs.readFile of the first path or, without paths, mergePdfsInMemory
MergePdfsFromDiskCalled ==
  /\ diskOp = None /\ ~OpCalled
  /\ \E pdfPaths \in PathLists, outputPath \in MergeOutputPaths :
       LET o == [NewOp("mergePdfsFromDisk") EXCEPT
                   !.pdfPaths = pdfPaths,
                   !.outputPath = outputPath,
                   !.allowOutsideBaseDir = FALSE]
       IN  /\ ApiCall("mergePdfsFromDisk",
                      [pdfPaths |-> pdfPaths, outputPath |-> outputPath])
           /\ IF pdfPaths = <<>>
              THEN /\ diskOp' = [o EXCEPT !.pc = "merge"]
                   /\ MergeStarts(<<Array(<<>>)>>)
              ELSE /\ diskOp' = [o EXCEPT !.pc = "readFile"]
                   /\ UNCHANGED mergeVars
  /\ UNCHANGED <<batch, config, fsLog, returned, concVars>>

\* await fs.readFile(pdfPath) settles
ReadFileSettles ==
  /\ diskOp # None /\ diskOp.pc = "readFile"
  /\ LET pdfPath == diskOp.pdfPaths[Len(diskOp.pdfBuffers) + 1]
         read == Append(diskOp.pdfBuffers, FileContent(pdfPath))
     IN  \/ /\ fsLog' = Append(fsLog, [call |-> "readFile", path |-> pdfPath,
                                        ok |-> TRUE])
            /\ IF Len(read) < Len(diskOp.pdfPaths)
               THEN /\ diskOp' = [diskOp EXCEPT !.pdfBuffers = read]
                    /\ UNCHANGED mergeVars
               ELSE /\ diskOp' = [diskOp EXCEPT !.pdfBuffers = read,
                                                !.pc = "merge"]
                    /\ MergeStarts(<<Array(read)>>)
            /\ UNCHANGED returned
         \/ /\ fsLog' = Append(fsLog, [call |-> "readFile", path |-> pdfPath,
                                        ok |-> FALSE])
            /\ Return(diskOp.call,
                      MergePdfsFromDiskCatch(diskOp.outputPath, FsError("open")))
            /\ diskOp' = None
            /\ UNCHANGED mergeVars
  /\ UNCHANGED <<batch, config, apiLog, concVars>>

\* await mergePdfsInMemory(pdfBuffers) settles; on success savePdf is called
MergeReturns ==
  /\ diskOp # None /\ diskOp.name = "mergePdfsFromDisk" /\ diskOp.pc = "merge"
  /\ pc = "done"
  /\ IF outcome.state = "resolved"
     THEN /\ diskOp' = SavePdfStarts(diskOp, outcome.value, diskOp.outputPath,
                                     diskOp.allowOutsideBaseDir)
          /\ UNCHANGED returned
     ELSE /\ Return(diskOp.call,
                    MergePdfsFromDiskCatch(diskOp.outputPath, outcome.error))
          /\ diskOp' = None
  /\ MergeEnds
  /\ UNCHANGED <<batch, config, fsLog, apiLog, concVars>>

\* ensureDirectoryExists of pdf-utils returns dirResult: the result of the
\* operation itself, or what savePdf is awaiting
EnsureReturns(dirResult) ==
  IF diskOp.name = "ensureDirectoryExists"
  THEN /\ Return(diskOp.call, Resolved(dirResult))
       /\ diskOp' = None
  ELSE /\ diskOp' = [diskOp EXCEPT !.dirResult = dirResult, !.pc = "ensured"]
       /\ UNCHANGED returned

\* await fs.mkdir(dirPath, { recursive: true }) settles
MkdirSettles ==
  /\ diskOp # None /\ diskOp.pc = "mkdir"
  /\ \/ /\ fsLog' = Append(fsLog, [call |-> "mkdir", path |-> diskOp.dirPath,
                                     ok |-> TRUE])
        /\ EnsureReturns([success |-> TRUE, path |-> diskOp.dirPath])
     \/ /\ fsLog' = Append(fsLog, [call |-> "mkdir", path |-> diskOp.dirPath,
                                     ok |-> FALSE])
        /\ diskOp' = [diskOp EXCEPT !.pc = "stat",
                                    !.mkdirError = FsError("mkdir")]
        /\ UNCHANGED returned
  /\ UNCHANGED <<batch, config, apiLog, mergeVars, concVars>>

\* await fs.stat(dirPath) settles, after mkdir failed
StatSettles ==
  /\ diskOp # None /\ diskOp.pc = "stat"
  /\ \E ok \in BOOLEAN, isDirectory \in BOOLEAN :
       /\ ~ok => ~isDirectory
       /\ fsLog' = Append(fsLog, [call |-> "stat", path |-> diskOp.dirPath,
                                  ok |-> ok, isDirectory |-> isDirectory])
       /\ IF ok /\ isDirectory
          THEN EnsureReturns([success |-> TRUE, path |-> diskOp.dirPath])
          ELSE EnsureReturns([success |-> FALSE, path |-> diskOp.dirPath,
                              error |-> diskOp.mkdirError])
  /\ UNCHANGED <<batch, config, apiLog, mergeVars, concVars>>

\* await ensureDirectoryExists({ dirPath: outputDir }) resumes in savePdf:
\* the result is dropped and fs.writeFile is called
SavePdfResumes ==
  /\ diskOp # None /\ diskOp.pc = "ensured"
  /\ diskOp' = [diskOp EXCEPT !.pc = "writeFile"]
  /\ UNCHANGED <<batch, config, fsLog, returned, apiLog, mergeVars, concVars>>

\* await fs.writeFile(outputPath, pdfBuffer) settles
WriteFileSettles ==
  /\ diskOp # None /\ diskOp.pc = "writeFile"
  /\ \/ /\ fsLog' = Append(fsLog, [call |-> "writeFile",
                                     path |-> diskOp.outputPath, ok |-> TRUE])
        /\ Return(diskOp.call,
                  Resolved([success |-> TRUE, path |-> diskOp.outputPath]))
     \/ /\ fsLog' = Append(fsLog, [call |-> "writeFile",
                                     path |-> diskOp.outputPath, ok |-> FALSE])
        /\ Return(diskOp.call,
                  Resolved([success |-> FALSE, path |-> diskOp.outputPath,
                            error |-> FsError("open")]))
  /\ diskOp' = None
  /\ UNCHANGED <<batch, config, apiLog, mergeVars, concVars>>

NextDisk ==
  \/ Configure
  \/ SavePdfCalled
  \/ EnsureDirectoryExistsCalled
  \/ MergePdfsCalled
  \/ MergePdfsSettles
  \/ MergePdfsFromDiskCalled
  \/ ReadFileSettles
  \/ CreateSettles
  \/ LoadSettles
  \/ CopySettles
  \/ AddPage
  \/ AppendReturns
  \/ MergeResumes
  \/ SaveSettles
  \/ MergeReturns
  \/ MkdirSettles
  \/ StatSettles
  \/ SavePdfResumes
  \/ WriteFileSettles

SpecDisk == InitDisk /\ [][NextDisk]_vars

----------------------------------------------------------------------------
(* The path-based, best-effort mergePdfs({pdfPaths, outputPath}) of        *)
(* src/unnamed/part_001 (lines 1-221): processSinglePdf turns every        *)
(* failure of one file into a result, and mergePdfs counts the results in  *)
(* `results`.  One call is modelled, in `batch`.  fs is synchronous here,  *)
(* so its calls are part of the step that makes them; fs fails with an     *)
(* Error, the PDF library with one of the values of Thrown.  Instead of    *)
(* mergePdfs, savePdf({pdfBuffer, outputPath}) of the same module may be   *)
(* called, once; its locals are in `diskOp`.  The calls of fs that change  *)
(* the disk are logged in `fsLog`.                                         *)

\* Bound of the model: number of paths of one call
MaxPaths == 2

\* The names of the files of a call
PathNames == {"a.pdf", "b.pdf"}

\* The pdfPaths of a call
BatchPathLists ==
  UNION {[1..n -> PathNames] : n \in 0..MaxPaths}

InitBatch ==
  /\ MergeIdle
  /\ ConcIdle
  /\ DiskIdle

\* Results of processSinglePdf
ProcessFailure(m) == [success |-> FALSE, error |-> Err(m)]
ProcessSuccess(pagesAdded) == [success |-> TRUE, pagesAdded |-> pagesAdded]

\* catch block of processSinglePdf: what the call settles with
ProcessCatch(pdfPath, error) ==
  IF IsNullish(error)
  THEN Rejected(PropertyTypeError(error, "message"))
  ELSE Resolved(ProcessFailure("Error processing PDF " \o pdfPath \o ": "
                               \o ToStr(MessageOf(error))))

\* const results = { totalFiles: pdfPaths.length, successfulMerges: 0,
\*                   failedMerges: 0, errors: [] }
NewResults(pdfPaths) ==
  [totalFiles |-> Len(pdfPaths), successfulMerges |-> 0, failedMerges |-> 0,
   errors |-> <<>>]

\* Body of the for-of loop after the await: the result is counted
Counted(res, processResult) ==
  IF processResult.success
  THEN [res EXCEPT !.successfulMerges = @ + 1]
  ELSE [res EXCEPT !.failedMerges = @ + 1,
                   !.errors = Append(@, processResult.error.message.s)]

\* errors.join('; ')
RECURSIVE Join(_)
Join(q) ==
  IF q = <<>> THEN ""
  ELSE IF Len(q) = 1 THEN q[1]
  ELSE q[1] \o "; " \o Join(Tail(q))

\* The returns of mergePdfs that carry the summary
BatchFailure(error, res) == [success |-> FALSE, error |-> error, results |-> res]
BatchSuccess(outputPath, res) ==
  [success |-> TRUE, outputPath |-> outputPath,
   message |-> "Successfully merged " \o ToString(res.successfulMerges)
               \o " PDFs into " \o outputPath,
   results |-> res]

\* catch block of mergePdfs: what the call settles with
BatchCatch(error) ==
  IF IsNullish(error)
  THEN Rejected(PropertyTypeError(error, "message"))
  ELSE Resolved([success |-> FALSE,
                 error |-> Err(FailedToMerge \o ToStr(MessageOf(error)))])

\* The call as made
NewBatch(pdfPaths) ==
  [pdfPaths |-> pdfPaths,
   outputPath |-> "out/m.pdf",
   pc |-> "create",
   i |-> 0,                  \* position of the for-of loop in pdfPaths
   mergedPdf |-> <<>>,       \* pages of the merged document: <<path, index>>
   results |-> None,         \* the summary, once it exists
   pdfDoc |-> 0,             \* page count of the document loaded last
   processResult |-> Pending,\* settlement of the last processSinglePdf
   attempted |-> <<>>,       \* paths given to processSinglePdf, in order
   outcomes |-> <<>>,        \* settlements of processSinglePdf, in order
   fsWrites |-> 0,           \* calls of writeFileSync
   saveCalls |-> 0,          \* calls of mergedPdf.save()
   ret |-> Pending]          \* settlement of the call

\* The call settles
BatchSettles(b, r) == [b EXCEPT !.pc = "returned", !.ret = r]

\* mergePdfs({pdfPaths, outputPath}) is called
BatchCalled ==
  /\ batch = None /\ diskOp = None /\ returned = <<>>
  /\ \E pdfPaths \in BatchPathLists : batch' = NewBatch(pdfPaths)
  /\ UNCHANGED <<mergeVars, concVars, config, diskOp, fsLog, returned, apiLog>>

\* Mutation of NoneMerged: the test after the loop is missing
NoneMergedIgnored(res) == FALSE

\* if (results.successfulMerges === 0)
NoneMerged(res) == res.successfulMerges = 0

\* The loop head, with the summary res: the next path, or what follows
\* the loop: the return for no file merged, or the call of save()
BatchNextIteration(b, res) ==
  LET c == [b EXCEPT !.results = res, !.i = @ + 1]
  IN  IF c.i <= Len(c.pdfPaths) THEN [c EXCEPT !.pc = "process"]
      ELSE IF NoneMerged(res)
      THEN BatchSettles(c, Resolved(BatchFailure(
             Err("No PDFs were successfully processed for merging. Errors: "
                 \o Join(res.errors)), res)))
      ELSE [c EXCEPT !.pc = "save", !.saveCalls = @ + 1]

\* PDFDocument.create() settles
BatchCreateSettles ==
  /\ batch # None /\ batch.pc = "create"
  /\ \/ batch' = BatchNextIteration(batch, NewResults(batch.pdfPaths))
     \/ \E e \in Thrown("create failed") :
          batch' = BatchSettles(batch, BatchCatch(e))
  /\ UNCHANGED <<mergeVars, concVars, config, diskOp, fsLog, returned, apiLog>>

\* processSinglePdf settles with r
ProcessSettles(b, r) ==
  [b EXCEPT !.pc = "processed", !.processResult = r,
            !.outcomes = Append(@, r)]

\* processSinglePdf is called for the path at the loop position and runs
\* to PDFDocument.load: existsSync, readFileSync, the test for no bytes
ProcessSinglePdfCalled ==
  /\ batch # None /\ batch.pc = "process"
  /\ LET pdfPath == batch.pdfPaths[batch.i]
         b == [batch EXCEPT !.attempted = Append(@, pdfPath)]
     IN  \/ batch' = ProcessSettles(b, Resolved(ProcessFailure(
                        "PDF file does not exist: " \o pdfPath)))
         \/ batch' = ProcessSettles(b, ProcessCatch(pdfPath,
                        FsError("open")))
         \/ batch' = ProcessSettles(b, Resolved(ProcessFailure(
                        "Empty PDF file: " \o pdfPath)))
         \/ batch' = [b EXCEPT !.pc = "load"]
  /\ UNCHANGED <<mergeVars, concVars, config, diskOp, fsLog, returned, apiLog>>

\* PDFDocument.load(pdfBytes) settles
BatchLoadSettles ==
  /\ batch # None /\ batch.pc = "load"
  /\ \/ \E n \in 0..MaxPages : batch' = [batch EXCEPT !.pc = "copy", !.pdfDoc = n]
     \/ \E e \in Thrown("Failed to parse PDF") :
          batch' = ProcessSettles(batch, ProcessCatch(batch.pdfPaths[batch.i], e))
  /\ UNCHANGED <<mergeVars, concVars, config, diskOp, fsLog, returned, apiLog>>

\* targetDoc.copyPages(pdfDoc, pdfDoc.getPageIndices()) settles; the test
\* for no pages and the forEach of addPage have no await
BatchCopySettles ==
  /\ batch # None /\ batch.pc = "copy"
  /\ LET pdfPath == batch.pdfPaths[batch.i]
         copied == [j \in 1..batch.pdfDoc |-> <<pdfPath, j - 1>>]
     IN  \/ /\ copied = <<>>
            /\ batch' = ProcessSettles(batch, Resolved(ProcessFailure(
                          "No pages found in PDF: " \o pdfPath)))
         \/ /\ copied # <<>>
            /\ batch' = ProcessSettles(
                          [batch EXCEPT !.mergedPdf = @ \o copied],
                          Resolved(ProcessSuccess(Len(copied))))
         \/ \E j \in 1..Len(copied), e \in Thrown("addPage failed") :
              batch' = ProcessSettles(
                         [batch EXCEPT !.mergedPdf = @ \o SubSeq(copied, 1, j - 1)],
                         ProcessCatch(pdfPath, e))
         \/ \E e \in Thrown("copyPages failed") :
              batch' = ProcessSettles(batch, ProcessCatch(pdfPath, e))
  /\ UNCHANGED <<mergeVars, concVars, config, diskOp, fsLog, returned, apiLog>>

\* mergePdfs resumes with the settlement of processSinglePdf
ProcessReturns ==
  /\ batch # None /\ batch.pc = "processed"
  /\ batch' =
       IF batch.processResult.state = "rejected"
       THEN BatchSettles(batch, BatchCatch(batch.processResult.error))
       ELSE BatchNextIteration(batch,
              Counted(batch.results, batch.processResult.value))
  /\ UNCHANGED <<mergeVars, concVars, config, diskOp, fsLog, returned, apiLog>>

\* A call of fs is logged with its outcome
FsLogged(entries) == fsLog' = fsLog \o entries
FsCall(call, path, ok) == [call |-> call, path |-> path, ok |-> ok]

\* mergedPdf.save() settles; the test of the bytes, ensureDirectoryExists
\* (existsSync, and mkdirSync when the directory is not there) and
\* writeFileSync have no await
BatchSaveSettles ==
  /\ batch # None /\ batch.pc = "save"
  /\ \/ /\ \E e \in Thrown("save failed") :
             batch' = BatchSettles(batch, BatchCatch(e))
        /\ UNCHANGED fsLog
     \/ /\ batch' = BatchSettles(batch, Resolved(BatchFailure(
                       Err("Failed to generate PDF bytes from merged document"),
                       batch.results)))
        /\ UNCHANGED fsLog
     \/ /\ batch' = BatchSettles(batch, Resolved(BatchFailure(
                       Err("Failed to create directory out: "
                           \o FsError("mkdir").message.s),
                       batch.results)))
        /\ FsLogged(<<FsCall("mkdirSync", "out", FALSE)>>)
     \/ \E made \in SUBSET {FsCall("mkdirSync", "out", TRUE)} :
          LET mkdirs == IF made = {} THEN <<>>
                        ELSE <<FsCall("mkdirSync", "out", TRUE)>>
          IN  \/ /\ batch' = BatchSettles([batch EXCEPT !.fsWrites = @ + 1],
                                          BatchCatch(FsError("open")))
                 /\ FsLogged(mkdirs \o
                      <<FsCall("writeFileSync", batch.outputPath, FALSE)>>)
              \/ /\ batch' = BatchSettles([batch EXCEPT !.fsWrites = @ + 1],
                                          Resolved(BatchSuccess(batch.outputPath,
                                                                batch.results)))
                 /\ FsLogged(mkdirs \o
                      <<FsCall("writeFileSync", batch.outputPath, TRUE)>>)
  /\ UNCHANGED <<mergeVars, concVars, config, diskOp, returned, apiLog>>

\* path.join(__dirname, '../../output')
DefaultOutputDir == Path(TRUE, <<"repo", "output">>)

\* Output paths given to savePdf: inside the output directory, outside it,
\* in a sibling directory whose name starts with "output", leaving the
\* output directory by "..", and relative to process.cwd()
SaveOutputPaths ==
  {Path(TRUE, <<"repo", "output", "m.pdf">>),
   Path(TRUE, <<"repo", "output", "pdfs", "m.pdf">>),
   Path(TRUE, <<"tmp", "elsewhere", "m.pdf">>),
   Path(TRUE, <<"repo", "output-evil", "m.pdf">>),
   Path(TRUE, <<"repo", "output", "..", "secret", "m.pdf">>),
   Path(FALSE, <<"out", "m.pdf">>)}

\* path.resolve(p): absolute, against process.cwd(), and normalized
PathResolve(p) ==
  Path(TRUE, Normalize((IF p.abs THEN <<>> ELSE Cwd.segs) \o p.segs, <<>>))

\* The string a is a prefix of the string b, for the names of the model
NamePrefix(a, b) == a = b \/ <<a, b>> \in {<<"output", "output-evil">>}

\* Mutation of StartsWith: every path is accepted
StartsWithAnything(p, allowedDir) == TRUE

\* safeOutputPath.startsWith(allowedDir), a test on the strings
StartsWith(p, allowedDir) ==
  LET n == Len(allowedDir.segs)
  IN  /\ Len(p.segs) >= n
      /\ SubSeq(p.segs, 1, n - 1) = SubSeq(allowedDir.segs, 1, n - 1)
      /\ NamePrefix(allowedDir.segs[n], p.segs[n])

\* The path as a string
RECURSIVE JoinSegs(_)
JoinSegs(segs) ==
  IF segs = <<>> THEN ""
  ELSE IF Len(segs) = 1 THEN segs[1]
  ELSE segs[1] \o "/" \o JoinSegs(Tail(segs))

PathString(p) == (IF p.abs THEN "/" ELSE "") \o JoinSegs(p.segs)

\* catch block of savePdf
SavePdfCatch(error) ==
  [success |-> FALSE,
   error |-> Err("Failed to save PDF: " \o ToStr(MessageOf(error)))]

\* savePdf({ pdfBuffer, outputPath }) of part_001, up to its first await or
\* to its return: ensureDirectoryExists (existsSync, and mkdirSync when the
\* directory is not there), then the test of the resolved path, then the
\* call of fs.promises.writeFile
PathSavePdfCalled ==
  /\ batch = None /\ diskOp = None /\ returned = <<>>
  /\ \E outputPath \in SaveOutputPaths :
       LET dir == Dirname(outputPath)
           safeOutputPath == PathResolve(outputPath)
           o == [NewOp("savePdf") EXCEPT !.outputPath = outputPath,
                                         !.dirPath = dir]
       IN  \/ /\ FsLogged(<<FsCall("mkdirSync", dir, FALSE)>>)
              /\ Return(o.call, Resolved(
                   [success |-> FALSE,
                    error |-> Err("Failed to create directory "
                                  \o PathString(dir) \o ": "
                                  \o FsError("mkdir").message.s)]))
              /\ UNCHANGED diskOp
           \/ \E made \in SUBSET {FsCall("mkdirSync", dir, TRUE)} :
                LET mkdirs == IF made = {} THEN <<>>
                              ELSE <<FsCall("mkdirSync", dir, TRUE)>>
                IN  IF StartsWith(safeOutputPath, DefaultOutputDir)
                    THEN /\ FsLogged(mkdirs)
                         /\ diskOp' = [o EXCEPT !.pc = "writeFile"]
                         /\ UNCHANGED returned
                    ELSE /\ FsLogged(mkdirs)
                         /\ Return(o.call, Resolved(SavePdfCatch(
                              Err("Output path is not within the allowed directory"))))
                         /\ UNCHANGED diskOp
           /\ ApiCall("savePdf", [pdfBuffer |-> SigBuffer,
                                  outputPath |-> outputPath])
  /\ UNCHANGED <<mergeVars, concVars, config, batch>>

\* await fs.promises.writeFile(safeOutputPath, pdfBuffer) settles
PathWriteFileSettles ==
  /\ diskOp # None /\ diskOp.name = "savePdf" /\ diskOp.pc = "writeFile"
  /\ batch = None
  /\ LET safeOutputPath == PathResolve(diskOp.outputPath)
     IN  \/ /\ FsLogged(<<FsCall("writeFile", safeOutputPath, TRUE)>>)
            /\ Return(diskOp.call, Resolved(
                 [success |-> TRUE, outputPath |-> diskOp.outputPath,
                  message |-> "PDF successfully saved to "
                              \o PathString(diskOp.outputPath)]))
         \/ /\ FsLogged(<<FsCall("writeFile", safeOutputPath, FALSE)>>)
            /\ Return(diskOp.call, Resolved(SavePdfCatch(FsError("open"))))
  /\ diskOp' = None
  /\ UNCHANGED <<mergeVars, concVars, config, apiLog, batch>>

NextBatch ==
  \/ BatchCalled
  \/ BatchCreateSettles
  \/ ProcessSinglePdfCalled
  \/ BatchLoadSettles
  \/ BatchCopySettles
  \/ ProcessReturns
  \/ BatchSaveSettles
  \/ PathSavePdfCalled
  \/ PathWriteFileSettles

SpecBatch == InitBatch /\ [][NextBatch]_vars

----------------------------------------------------------------------------
(* Vocabulary of the properties *)

RECURSIVE Sum(_)
Sum(q) == IF q = <<>> THEN 0 ELSE Head(q) + Sum(Tail(q))

\* The two implementations of src/src/pdf-utils.js
PdfUtilsJs == {"variadic", "array"}

\* The implementations that accept both calling conventions
Variadic == {"variadic", "fixed"}

\* The append step returned a result object with success: false
ReportsFailure(r) == r.state = "resolved" /\ ~r.value.success

\* The append step returned a result object with success: true
ReportsSuccess(r) == r.state = "resolved" /\ r.value.success

\* The library calls of kind op made for source j
Calls(op, j) == {c \in 1..Len(log) : log[c].op = op /\ log[c].src = j}

SaveCalled == Calls("save", 0) # {}

\* The pages of the target that come from source j, in target order
PagesFrom(j) == SelectSeq(target, LAMBDA h : h.src = j)

\* The thrown value is an Error with a non-empty message
CarriesMessage(e) == e.t = "Error" /\ e.message.t = "string" /\ e.message.s # ""

\* Handle a comes before handle b in input order
Precedes(a, b) == a.src < b.src \/ (a.src = b.src /\ a.page < b.page)

\* What the append step that returned last handed to the merge as the error
AbortCause ==
  IF result.state = "rejected" THEN result.error
  ELSE IF "error" \in DOMAIN result.value THEN result.value.error
  ELSE failure.error

IsPrefix(p, q) == Len(p) <= Len(q) /\ SubSeq(q, 1, Len(p)) = p

\* The buffers b1, ..., bn that the arguments mergePdfs(b1, ..., bn) or
\* mergePdfs([b1, ..., bn]) stand for
BuffersOf(a) == IF Len(a) = 1 /\ a[1].t = "array" THEN a[1].items ELSE a

\* The arguments are buffers passed one by one
IsSpread(a) == \A i \in 1..Len(a) : a[i].t # "array"

\* The outcome of merging the buffers bufs, one after the other, into a
\* document that holds the pages acc, with nothing else running
RECURSIVE MergedAlone(_, _)
MergedAlone(bufs, acc) ==
  IF bufs = <<>> THEN Resolved(Serialize(acc))
  ELSE LET loaded == LoadOf(Head(bufs)) IN
       IF loaded.ok
       THEN MergedAlone(Tail(bufs),
                        acc \o [p \in 1..Len(loaded.pageIndices) |->
                                  [bytes |-> Head(bufs),
                                   page |-> loaded.pageIndices[p]]])
       ELSE Rejected(Err("Failed to merge PDFs: " \o loaded.error.message.s))

\* The call of a disk operation in apiLog, once one was called
OpIndex == CHOOSE i \in 1..Len(apiLog) : apiLog[i].name # "configure"

\* The disk operation `name` was called
Called(name) == OpCalled /\ apiLog[OpIndex].name = name

\* The call numbered i of the API has returned or settled
HasResult(i) == \E j \in 1..Len(returned) : returned[j].call = i

\* What the call numbered i of the API returned or settled with
ResultOf(i) ==
  returned[CHOOSE j \in 1..Len(returned) : returned[j].call = i].result

\* The calls of fs of one kind, as positions of fsLog
FsCalls(call) == {i \in 1..Len(fsLog) : fsLog[i].call = call}

\* mergePdfsInMemory was invoked by the disk merge
MergeInvoked == args # <<>>

\* A read of the disk merge failed
ReadFailed == \E i \in FsCalls("readFile") : ~fsLog[i].ok

\* ensureDirectoryExists of pdf-utils failed: mkdir failed and stat did not
\* show a directory
EnsureFailed ==
  \E i \in FsCalls("mkdir") :
    /\ ~fsLog[i].ok
    /\ i < Len(fsLog)
    /\ fsLog[i + 1].call = "stat"
    /\ ~(fsLog[i + 1].ok /\ fsLog[i + 1].isDirectory)

\* Path p, absolute, is inside the directory base or is base
Inside(base, p) == IsPrefix(base.segs, Normalize(p.segs, <<>>))

\* Path p as the API is to resolve it against base
ResolvedAgainst(base, p) ==
  IF p.abs THEN p ELSE Path(TRUE, Normalize(base.segs \o p.segs, <<>>))

\* The configuration after the first n calls of the API: for each key the
\* value of the last configure call that names it, else the default
ConfigAfter(n) ==
  [key \in {"baseDir", "allowOutsideBaseDir", "createDirsIfMissing"} |->
     LET naming == {i \in 1..n : /\ apiLog[i].name = "configure"
                                  /\ key \in DOMAIN apiLog[i].params}
     IN  IF naming = {} THEN DefaultConfig[key]
         ELSE apiLog[CHOOSE i \in naming : \A j \in naming : j <= i].params[key]]

----------------------------------------------------------------------------
(* Properties *)

\* C1: fail-fast merge.  In both mergePdfs of src/src/pdf-utils.js, once the
\* append of source j has reported success: false, no library call is ever
\* made for a source after j, save() is never called, and the call does not
\* resolve: it rejects.
C1_FailFast ==
  variant \in PdfUtilsJs =>
    \A j \in 1..Len(results) :
      ReportsFailure(results[j]) =>
        /\ \A c \in 1..Len(log) : log[c].src <= j /\ log[c].op # "save"
        /\ pc \in {"ret", "done"}
        /\ outcome.state # "resolved"
        /\ pc = "done" => outcome.state = "rejected" /\ settled = 1

\* The first of two sources failed, and the call has rejected
C1_Witness ==
  /\ variant = "variadic"
  /\ Len(pdfBuffers) = 2
  /\ Len(results) = 1
  /\ ReportsFailure(results[1])
  /\ pc = "done"
  /\ outcome.state = "rejected"

\* C2: a merge call that resolves has a target holding every page of every
\* supplied source: no library call failed, every source was loaded and
\* contributed as many pages as it has.
C2_NoTruncatedOutput ==
  outcome.state = "resolved" =>
    /\ failure = None
    /\ Len(docs) = Len(pdfBuffers)
    /\ \A j \in 1..Len(docs) : docs[j] >= 0 /\ Len(PagesFrom(j)) = docs[j]

\* C3, as stated: when the sources all load, the document that mergePdfs
\* serializes has as many pages as the sources have together.
C3_PageCountIsSum ==
  variant \in PdfUtilsJs /\ SaveCalled =>
    /\ Len(docs) = Len(pdfBuffers)
    /\ \A j \in 1..Len(docs) : docs[j] >= 0
    /\ Len(target) = Sum(docs)
    /\ outcome.state = "resolved" => Len(outcome.value.pages) = Sum(docs)

\* C3, amended: when the sources all load, the target holds as many pages as
\* the sources have together when save() is called, and the bytes mergePdfs
\* resolves with hold that many pages, or one page when the sources have no
\* page at all.
C3_PageCountIsSumOrOne ==
  variant \in PdfUtilsJs /\ SaveCalled =>
    /\ Len(docs) = Len(pdfBuffers)
    /\ \A j \in 1..Len(docs) : docs[j] >= 0
    /\ Len(target) = Sum(docs)
    /\ outcome.state = "resolved" =>
         Len(outcome.value.pages) = IF Sum(docs) = 0 THEN 1 ELSE Sum(docs)

\* Sources of 2 and 3 pages were merged into 5 pages
C3_Witness ==
  /\ variant = "variadic"
  /\ docs = <<2, 3>>
  /\ outcome.state = "resolved"
  /\ Len(outcome.value.pages) = 5

\* C4: page order is preserved.  The target's pages are in input order (by
\* source, then by page index); during the forEach the pages added so far are
\* the first k handles copyPages returned, in that order; the pages a source
\* has in the target are a prefix of its pages; once an append of
\* src/src/pdf-utils.js has reported success they are all of its pages, with
\* one addPage call per handle.
C4_PageOrder ==
  /\ \A a, b \in 1..Len(target) : a < b => Precedes(target[a], target[b])
  /\ pc = "add" =>
       /\ k <= Len(copiedPages)
       /\ PagesFrom(idx) = SubSeq(copiedPages, 1, k)
  /\ \A j \in 1..Len(docs) :
       docs[j] >= 0 =>
         IsPrefix(PagesFrom(j), CopyPagesResult(j, GetPageIndices(docs[j])))
  /\ \A j \in 1..Len(results) :
       variant \in PdfUtilsJs /\ ReportsSuccess(results[j]) =>
         /\ results[j].value.pagesAdded = docs[j]
         /\ Len(PagesFrom(j)) = docs[j]
         /\ Cardinality(Calls("addPage", j)) = docs[j]

\* Two sources of two pages each were merged
C4_Witness ==
  /\ outcome.state = "resolved"
  /\ docs = <<2, 2>>
  /\ Len(outcome.value.pages) = 4
  /\ outcome.value.pages[2].src = 1
  /\ outcome.value.pages[3].src = 2

\* C5: when a library call of mergePdfs (create, load, copyPages, addPage or
\* save) throws an Error with a non-empty message m, the call rejects, once,
\* with an Error whose message is "Failed to merge PDFs: " followed by m.
C5_ErrorIsWrapped ==
  variant \in PdfUtilsJs /\ pc = "done" /\ failure # None
    /\ CarriesMessage(failure.error) =>
      /\ outcome = Rejected(Err("Failed to merge PDFs: " \o failure.error.message.s))
      /\ settled = 1

\* save failed after both appends succeeded, and the merge rejected
C5_Witness ==
  /\ variant = "variadic"
  /\ pc = "done"
  /\ Len(results) = 2
  /\ \A j \in 1..2 : ReportsSuccess(results[j])
  /\ failure # None
  /\ failure.op = "save"
  /\ outcome = Rejected(Err("Failed to merge PDFs: Failed to save merged PDF"))

\* C6: in mergePdfsInMemory, if a source buffer fails to load, the call
\* rejects, and when what the append step handed to the merge carries a
\* message m the rejection's message is "Failed to merge PDFs: " followed by m.
C6_LoadFailureRejects ==
  variant = "fixed" /\ pc = "done" /\ (\E j \in 1..Len(docs) : docs[j] = -1) =>
    /\ outcome.state = "rejected"
    /\ CarriesMessage(AbortCause) =>
         outcome.error = Err("Failed to merge PDFs: " \o AbortCause.message.s)

\* C7: when what aborts the variadic mergePdfs carries no message, the call
\* rejects with exactly "Failed to merge PDFs: Unknown error during PDF merge".
C7_FallbackMessage ==
  variant = "variadic" /\ pc = "done" /\ failure # None
    /\ ~CarriesMessage(failure.error) =>
      outcome = Rejected(Err("Failed to merge PDFs: Unknown error during PDF merge"))

\* C8: merging zero buffers, mergePdfs() or mergePdfs([]), calls create, then
\* save, and nothing else; when neither throws, the call resolves, once, with
\* the bytes save() returned for the empty document.
C8_ZeroBuffers ==
  variant \in Variadic /\ args \in {<<>>, <<Array(<<>>)>>} =>
    /\ IsPrefix(log, <<LibCall("create", 0), LibCall("save", 0)>>)
    /\ pc = "done" /\ failure = None =>
         /\ log = <<LibCall("create", 0), LibCall("save", 0)>>
         /\ outcome = Resolved(Serialize(<<>>))
         /\ settled = 1

\* mergePdfs([]) has resolved
C8_Witness ==
  /\ variant = "variadic"
  /\ args = <<Array(<<>>)>>
  /\ pc = "done"
  /\ outcome = Resolved(Serialize(<<>>))

\* C9: the append step never throws: every append settles by resolving to a
\* result object with a success flag.
C9_AppendNeverRejects ==
  \A j \in 1..Len(results) :
    /\ results[j].state = "resolved"
    /\ "success" \in DOMAIN results[j].value

\* C10: in processSinglePdf and appendPdfPages, when load fails for source j
\* the append returns exactly {success: false, pagesAdded: 0, error} with the
\* error load raised, and neither copyPages nor addPage is called for j.
C10_LoadFailureResult ==
  variant \in PdfUtilsJs =>
    \A j \in 1..Len(results) :
      docs[j] = -1 =>
        /\ failure.op = "load" /\ failure.src = j
        /\ results[j] = Resolved([success |-> FALSE, pagesAdded |-> 0,
                                  error |-> failure.error])
        /\ Calls("copyPages", j) = {} /\ Calls("addPage", j) = {}

\* C11: in appendPdfPages and _appendPdfToDoc, appending a source that loads
\* with zero pages returns {success: true, pagesAdded: 0} without touching
\* the target: neither copyPages nor addPage is called for that source, no
\* page of it is in the target, and when the append returns the target holds
\* exactly the pages it held before, those of the earlier sources.
C11_ZeroPageSource ==
  variant \in Variadic =>
    \A j \in 1..Len(docs) :
      docs[j] = 0 =>
        /\ Calls("copyPages", j) = {} /\ Calls("addPage", j) = {}
        /\ PagesFrom(j) = <<>>
        /\ Len(results) >= j /\ results[j] = Resolved(Success(0))
        /\ pc = "ret" /\ idx = j =>
             Len(target) = Sum([i \in 1..(j - 1) |-> Len(PagesFrom(i))])

\* A zero-page source was appended to a target holding 2 pages
C11_Witness ==
  /\ variant = "variadic"
  /\ docs = <<2, 0>>
  /\ pc = "ret"
  /\ results[2] = Resolved(Success(0))
  /\ Len(target) = 2

\* C12: for every append result that carries pagesAdded, pagesAdded is the
\* number of pages the append added to the target, a successful append added
\* as many pages as the source document has, and so {success: true,
\* pagesAdded: 0} is returned only for a source that loaded with zero pages.
C12_PagesAddedIsExact ==
  \A j \in 1..Len(results) :
    results[j].state = "resolved" /\ "pagesAdded" \in DOMAIN results[j].value =>
      /\ results[j].value.pagesAdded = Len(PagesFrom(j))
      /\ results[j].value.success => results[j].value.pagesAdded = docs[j]

\* C13: in appendPdfs of pdf-utils.js.fixed, when the load of a source buffer
\* fails: if the buffer starts with "%PDF-" the append step reports
\* {success: true, pagesAdded: 0} and leaves the target untouched, save() is
\* called, and when it resolves appendPdfs returns exactly {buffer: the
\* serialization of the unmodified target, success: true, pagesAdded: 0},
\* with no error; otherwise save() is not called and appendPdfs returns
\* {buffer: targetBuffer, success: false, error: what load threw,
\* pagesAdded: 0}.
C13_SignatureIsEmptyPdf ==
  Len(docs) = 1 /\ docs[1] = -1 /\ IsBytes(args[1]) =>
    /\ Calls("copyPages", 1) = {} /\ Calls("addPage", 1) = {}
    /\ target = PagesFrom(0)
    /\ IF Len(args[1].bytes) >= 5
          /\ SubSeq(args[1].bytes, 1, 5) = <<"%", "P", "D", "F", "-">>
       THEN /\ results[1] = Resolved(Success(0))
            /\ pc = "done" => SaveCalled
            /\ pc = "done" /\ failure.op = "load" =>
                 outcome = Resolved([buffer |-> Serialize(PagesFrom(0)),
                                     success |-> TRUE, pagesAdded |-> 0])
       ELSE /\ results[1] = Resolved([success |-> FALSE, pagesAdded |-> 0,
                                      error |-> failure.error])
            /\ ~SaveCalled
            /\ pc = "done" =>
                 outcome = Resolved([buffer |-> args[2], success |-> FALSE,
                                     error |-> failure.error, pagesAdded |-> 0])

\* A "%PDF-" source failed to load and appendPdfs returned the serialization
\* of its two-page target
C13_Witness ==
  /\ args[1] = SigBuffer
  /\ docs = <<-1>>
  /\ pc = "done"
  /\ outcome.state = "resolved"
  /\ outcome.value.success
  /\ Len(outcome.value.buffer.pages) = 2

\* C14: the two calling conventions of the variadic mergePdfs agree.  A call
\* with its buffers passed one by one iterates exactly its arguments (one
\* argument is a sequence of one, no argument the empty sequence) and loads
\* them in order; the call mergePdfs([b1, ..., bn]) iterates the same
\* sequence as mergePdfs(b1, ..., bn), and once both have settled they have
\* issued the same load calls in the same order and settled the same way.
C14_ConventionsAgree ==
  /\ \A c \in DOMAIN calls :
       IsSpread(calls[c].args) =>
         /\ calls[c].pc # "call" => calls[c].pdfBuffers = calls[c].args
         /\ IsPrefix(calls[c].loads, calls[c].args)
  /\ \A c, d \in DOMAIN calls :
       calls[d].args = <<Array(calls[c].args)>> =>
         /\ calls[d].pc # "call" => calls[d].pdfBuffers = calls[c].args
         /\ calls[c].pc = "done" /\ calls[d].pc = "done" =>
              /\ calls[c].loads = calls[d].loads
              /\ calls[c].outcome = calls[d].outcome

\* mergePdfs(b1, b2) and mergePdfs([b1, b2]) both resolved with four pages
C14_Witness ==
  /\ calls[1].args = <<SigBuffer, SigBuffer>>
  /\ calls[2].args = <<Array(<<SigBuffer, SigBuffer>>)>>
  /\ calls[1].pc = "done" /\ calls[2].pc = "done"
  /\ calls[1].outcome.state = "resolved"
  /\ Len(calls[2].outcome.value.pages) = 4
  /\ calls[2].loads = <<SigBuffer, SigBuffer>>

\* C15: merge calls whose steps interleave at the await points share no
\* mutable state.  The target document of a call is the target of no other
\* call and holds only pages copied by that call from its own sources, and
\* a call that has settled has the outcome of merging its buffers alone.
C15_CallsAreIndependent ==
  \A c \in DOMAIN calls :
    /\ calls[c].newPdfDoc # 0 =>
         /\ \A d \in DOMAIN calls : d # c => calls[d].newPdfDoc # calls[c].newPdfDoc
         /\ \A i \in 1..Len(heap[calls[c].newPdfDoc]) :
              /\ heap[calls[c].newPdfDoc][i].call = c
              /\ heap[calls[c].newPdfDoc][i].src <= calls[c].idx
    /\ calls[c].pc = "done" =>
         calls[c].outcome = MergedAlone(BuffersOf(calls[c].args), <<>>)

\* Call 2 created its document first and is awaiting copyPages for its
\* second source, while call 1, started later, has already resolved
C15_Witness ==
  /\ calls[2].newPdfDoc = 1
  /\ calls[1].newPdfDoc = 2
  /\ calls[2].pc = "copy" /\ calls[2].idx = 2
  /\ Len(heap[1]) = 2
  /\ calls[1].pc = "done"
  /\ calls[1].outcome.state = "resolved"
  /\ Len(calls[1].outcome.value.pages) = 4

\* C16: in the disk merge, mergePdfsFromDisk, the files are read in order
\* and all of them before mergePdfsInMemory is invoked, which gets their
\* contents; if a read fails the merge is never invoked; mkdir, stat and
\* writeFile are called only after the merge has resolved; and when a read
\* or the merge has failed the call resolves, it does not reject, to
\* {success: false, path: outputPath, error} where error.message is
\* "Failed to merge PDFs: " followed by the message of what failed.
C16_DiskMergeOrder ==
  Called("mergePdfsFromDisk") =>
    LET call == apiLog[OpIndex]
        pdfPaths == call.params.pdfPaths
        outputPath == call.params.outputPath
        reads == SelectSeq(fsLog, LAMBDA c : c.call = "readFile")
        others == FsCalls("mkdir") \cup FsCalls("stat") \cup FsCalls("writeFile")
        disabled == [success |-> FALSE, path |-> outputPath]
    IN  /\ Len(reads) <= Len(pdfPaths)
        /\ \A i \in 1..Len(reads) : reads[i].path = pdfPaths[i]
        /\ MergeInvoked =>
             /\ Len(reads) = Len(pdfPaths)
             /\ \A i \in 1..Len(reads) : reads[i].ok
             /\ args = <<Array([i \in 1..Len(reads) |-> FileContent(pdfPaths[i])])>>
        /\ ReadFailed => ~MergeInvoked
        /\ others # {} => MergeInvoked /\ outcome.state = "resolved"
        /\ HasResult(OpIndex) => ResultOf(OpIndex).state = "resolved"
        /\ ReadFailed =>
             /\ others = {}
             /\ HasResult(OpIndex)
             /\ ResultOf(OpIndex) = Resolved(
                  [success |-> FALSE, path |-> outputPath,
                   error |-> Err("Failed to merge PDFs: "
                                 \o "EACCES: permission denied, open")])
        /\ outcome.state = "rejected" =>
             /\ others = {}
             /\ diskOp = None =>
                  /\ HasResult(OpIndex)
                  /\ ResultOf(OpIndex) = Resolved(
                       [success |-> FALSE, path |-> outputPath,
                        error |-> Err("Failed to merge PDFs: "
                                      \o outcome.error.message.s)])

\* Two files were read, the merge rejected because the second did not load,
\* and the disk merge resolved to the failure without touching the disk
C16_Witness ==
  /\ Called("mergePdfsFromDisk")
  /\ Len(fsLog) = 2
  /\ fsLog[2].call = "readFile" /\ fsLog[2].ok
  /\ outcome.state = "rejected"
  /\ diskOp = None
  /\ ResultOf(OpIndex).value.error =
       Err("Failed to merge PDFs: Failed to merge PDFs: Failed to load PDF")

\* C17: when ensuring the output directory has failed (mkdir failed and stat
\* did not show a directory), savePdf of pdf-utils.js.fixed resolves to a
\* result with success: false and an error, whether the write fails or not.
C17_SavePdfReportsDirectoryFailure ==
  OpCalled /\ EnsureFailed /\ HasResult(OpIndex)
    /\ apiLog[OpIndex].name \in {"savePdf", "mergePdfsFromDisk"} =>
      /\ ResultOf(OpIndex).state = "resolved"
      /\ ~ResultOf(OpIndex).value.success
      /\ "error" \in DOMAIN ResultOf(OpIndex).value

\* C18: with allowOutsideBaseDir false when savePdf or mergePdfs of index.js
\* was called, every file written is inside the base directory configured
\* at that time.
C18_WritesStayInsideBaseDir ==
  OpCalled /\ apiLog[OpIndex].name \in {"savePdf", "mergePdfs"}
    /\ ~apiLog[OpIndex].config.allowOutsideBaseDir =>
    \A i \in FsCalls("writeFile") :
      fsLog[i].ok => Inside(apiLog[OpIndex].config.baseDir, fsLog[i].path)

C20_ConfigureOverrides ==
  /\ config = ConfigAfter(Len(apiLog))
  /\ \A i \in 1..Len(apiLog) :
       apiLog[i].name = "configure" =>
         /\ apiLog[i].config = ConfigAfter(i - 1)
         /\ HasResult(i) /\ ResultOf(i) = Returned(ModuleExports)
  /\ OpCalled =>
       LET call == apiLog[OpIndex]
           cfg == ConfigAfter(OpIndex - 1)
       IN  /\ diskOp # None /\ call.name \in {"savePdf", "mergePdfs"} =>
                /\ diskOp.outputPath =
                     ResolvedAgainst(cfg.baseDir, call.params.outputPath)
                /\ diskOp.allowOutsideBaseDir = cfg.allowOutsideBaseDir
           /\ call.name = "mergePdfs" =>
                args = <<[t |-> "object",
                          pdfPaths |->
                            [i \in 1..Len(call.params.pdfPaths) |->
                               ResolvedAgainst(cfg.baseDir, call.params.pdfPaths[i])],
                          outputPath |->
                            ResolvedAgainst(cfg.baseDir, call.params.outputPath),
                          allowOutsideBaseDir |-> cfg.allowOutsideBaseDir]>>
           /\ call.name = "ensureDirectoryExists" =>
                IF cfg.createDirsIfMissing
                THEN /\ diskOp # None =>
                          diskOp.dirPath =
                            ResolvedAgainst(cfg.baseDir, call.params.dirPath)
                     /\ HasResult(OpIndex) =>
                          ResultOf(OpIndex).value.path =
                            ResolvedAgainst(cfg.baseDir, call.params.dirPath)
                ELSE /\ fsLog = <<>> /\ diskOp = None
                     /\ ResultOf(OpIndex) = Returned(
                          [success |-> FALSE,
                           error |-> Err("Directory creation disabled in configuration")])
           /\ HasResult(OpIndex) /\ call.name = "savePdf" =>
                ResultOf(OpIndex).value.path =
                  ResolvedAgainst(cfg.baseDir, call.params.outputPath)

\* configure({baseDir: other}) then configure({baseDir: cwd,
\* allowOutsideBaseDir: true}), then savePdf of a relative path: it is
\* resolved against cwd and passed with allowOutsideBaseDir true
C20_Witness ==
  /\ Len(apiLog) = 3
  /\ apiLog[1].params = [baseDir |-> OtherDir]
  /\ apiLog[2].params = [baseDir |-> Cwd, allowOutsideBaseDir |-> TRUE]
  /\ apiLog[3].name = "savePdf"
  /\ apiLog[3].params.outputPath = Path(FALSE, <<"out", "m.pdf">>)
  /\ diskOp # None
  /\ diskOp.outputPath = Path(TRUE, <<"work", "out", "m.pdf">>)
  /\ diskOp.allowOutsideBaseDir

C23_FixedCallOrder ==
  pc # "call" =>
    /\ log[1] = LibCall("create", 0)
    /\ Calls("create", 0) = {1}
    /\ \A j \in 1..Len(pdfBuffers) :
         /\ Cardinality(Calls("load", j)) <= 1
         /\ \A c \in Calls("copyPages", j) \cup Calls("addPage", j) :
              \E l \in Calls("load", j) : l < c
    /\ \A j \in 1..(Len(pdfBuffers) - 1) :
         \A l \in Calls("load", j + 1) :
           /\ Len(results) >= j
           /\ ReportsSuccess(results[j])
           /\ Calls("load", j) # {}
           /\ \A c \in 1..Len(log) : log[c].src = j => c < l
    /\ Cardinality(Calls("save", 0)) <= 1
    /\ \A c \in Calls("save", 0) :
         /\ c = Len(log)
         /\ Len(results) = Len(pdfBuffers)
         /\ \A j \in 1..Len(pdfBuffers) :
              Calls("load", j) # {} /\ ReportsSuccess(results[j])

\* Two sources were loaded one after the other and save was called last
C23_Witness ==
  /\ variant = "variadic"
  /\ Len(pdfBuffers) = 2
  /\ docs = <<1, 1>>
  /\ pc = "done"
  /\ log = <<LibCall("create", 0),
             LibCall("load", 1), LibCall("copyPages", 1), LibCall("addPage", 1),
             LibCall("load", 2), LibCall("copyPages", 2), LibCall("addPage", 2),
             LibCall("save", 0)>>

\* C24: the target document only grows.  Every step of a merge either
\* leaves the pages of the target as they are or adds one page at the end:
\* the page count never decreases and no page already added is removed or
\* replaced.
C24_TargetOnlyGrows ==
  [][/\ Len(target') \in {Len(target), Len(target) + 1}
     /\ SubSeq(target', 1, Len(target)) = target]_vars

\* The second page of the second source was added to a target that held
\* the page of the first
C24_Witness ==
  /\ variant = "variadic"
  /\ docs = <<1, 2>>
  /\ Len(target) = 3
  /\ target[1].src = 1 /\ target[3].src = 2

\* C25: a failed append leaves the target as it was.  Whenever appendPdfPages
\* has returned success: false for source j, no page of source j is in the
\* target, and when it returns the target holds exactly the pages it held
\* before the call, those of the earlier sources.
C25_FailedAppendIsAtomic ==
  variant = "variadic" =>
    \A j \in 1..Len(results) :
      ReportsFailure(results[j]) =>
        /\ PagesFrom(j) = <<>>
        /\ pc = "ret" /\ idx = j =>
             Len(target) = Sum([i \in 1..(j - 1) |-> Len(PagesFrom(i))])

\* C26: the path-based mergePdfs of part_001 reports success: true only if
\* at least one file was merged; when it has returned with no file merged
\* (every file failed, or pdfPaths is empty) it has returned success: false,
\* save() was never called, and no call of mkdirSync or writeFileSync was
\* made.
C26_SuccessNeedsOneMerged ==
  batch # None /\ batch.pc = "returned" =>
    LET merged == SelectSeq(batch.outcomes,
                            LAMBDA o : o.state = "resolved" /\ o.value.success)
    IN  /\ batch.ret.state = "resolved" /\ batch.ret.value.success =>
             Len(merged) >= 1
        /\ Len(merged) = 0 =>
             /\ batch.ret.state = "rejected" \/ ~batch.ret.value.success
             /\ batch.saveCalls = 0
             /\ fsLog = <<>>
             /\ batch.fsWrites = 0

\* Both files of a call failed, and the call returned the failure with the
\* summary
C26_Witness ==
  /\ batch # None /\ batch.pc = "returned"
  /\ Len(batch.pdfPaths) = 2
  /\ batch.results # None
  /\ batch.results.failedMerges = 2
  /\ batch.ret.state = "resolved" /\ ~batch.ret.value.success
  /\ "results" \in DOMAIN batch.ret.value
  /\ batch.saveCalls = 0

\* C29: when savePdf of part_001 has returned for an output path that
\* resolves to a place outside DEFAULT_OUTPUT_DIR, it has returned
\* success: false and has changed nothing on the disk: no directory was
\* created and no file was written.
C29_OutsidePathLeavesDiskAlone ==
  Called("savePdf") /\ HasResult(OpIndex)
    /\ ~Inside(DefaultOutputDir, PathResolve(apiLog[OpIndex].params.outputPath))
    => /\ ResultOf(OpIndex).state = "resolved"
       /\ ~ResultOf(OpIndex).value.success
       /\ \A c \in 1..Len(fsLog) : ~fsLog[c].ok

\* C27: in the reduce-based mergePdfs the appends run one after the other.
\* At most one callback is inside its append at a time; when load was
\* called for source j + 1 the append of source j has returned, with
\* success, and every library call for source j precedes it; and once the
\* append of source j has reported failure, no library call is made for a
\* later source and save() is not called.
C27_AppendsAreSerialized ==
  variant = "reduce" =>
    /\ Cardinality({i \in DOMAIN chain : chain[i].pc \in {"load", "copy"}}) <= 1
    /\ \A j \in DOMAIN chain :
         /\ Cardinality(Calls("load", j)) <= 1
         /\ \A l \in Calls("load", j + 1) :
              /\ chain[j].pc \in {"returned", "settled"}
              /\ chain[j].result # None
              /\ chain[j].result.success
              /\ \A c \in 1..Len(log) : log[c].src = j => c < l
         /\ chain[j].result # None /\ ~chain[j].result.success =>
              /\ \A c \in 1..Len(log) : log[c].src <= j
              /\ ~SaveCalled

\* The append of the first of two sources failed; the second callback
\* rejected without loading its source, and the call rejected
C27_Witness ==
  /\ variant = "reduce"
  /\ Len(chain) = 2
  /\ chain[1].pc = "settled"
  /\ chain[1].promise.state = "rejected"
  /\ chain[2].pc = "settled"
  /\ chain[2].promise.state = "rejected"
  /\ Calls("load", 2) = {}
  /\ pc = "done"
  /\ outcome.state = "rejected"

\* C28: the reduce-based mergePdfs rejects an input that is not an array,
\* or is an empty array, with an Error whose message is exactly "Input must
\* be a non-empty array of PDF buffers.", and makes no library call: no
\* document is created.
C28_InputIsValidatedFirst ==
  variant = "reduce" /\ pc # "call"
    /\ (args[1].t # "array" \/ args[1].items = <<>>) =>
      /\ pc = "done"
      /\ settled = 1
      /\ outcome = Rejected(Err("Input must be a non-empty array of PDF buffers."))
      /\ log = <<>>

\* mergePdfs([]) has rejected
C28_Witness ==
  /\ variant = "reduce"
  /\ args = <<Array(<<>>)>>
  /\ pc = "done"
  /\ outcome.state = "rejected"
  /\ log = <<>>

\* C22: every merge call eventually settles, and settles exactly once: the
\* number of settlements never exceeds one and never goes down, it is one
\* exactly when the call has ended, the settlement is a resolution with the
\* serialized bytes or a rejection with an Error, and eventually the call
\* has settled.
C22_SettlesExactlyOnce ==
  /\ [](settled <= 1)
  /\ []((pc = "done") <=> (settled = 1))
  /\ [](settled = 0 <=> outcome = Pending)
  /\ [](settled = 1 =>
         \/ outcome.state = "resolved" /\ outcome.value.t = "bytes"
         \/ outcome.state = "rejected" /\ outcome.error.t = "Error")
  /\ [][settled' >= settled /\ (settled = 1 => outcome' = outcome)]_vars
  /\ <>(settled = 1)

\* A reduce-based merge of two sources has resolved with the four pages
C22_Witness ==
  /\ variant = "reduce"
  /\ docs = <<2, 2>>
  /\ pc = "done"
  /\ settled = 1
  /\ outcome.state = "resolved"
  /\ Len(outcome.value.pages) = 4

----------------------------------------------------------------------------
(* mergePdfsInMemory of src/unnamed/part_002 *)

\* Argument j of the call is null, undefined or a buffer of length zero
IsEmptyInput(j) == args[j] \in {Null, Undefined, Buffer(<<>>)}

\* The positions of the arguments that are not empty, in input order
NonEmptyInputs ==
  SelectSeq([j \in 1..Len(args) |-> j], LAMBDA j : ~IsEmptyInput(j))

\* The pages of the non-empty inputs in input order, docs giving the page
\* count of each
RECURSIVE PagesOfNonEmptyInputs(_)
PagesOfNonEmptyInputs(r) ==
  IF r > Len(NonEmptyInputs) THEN <<>>
  ELSE [p \in 1..docs[r] |-> [src |-> NonEmptyInputs[r], page |-> p - 1]]
         \o PagesOfNonEmptyInputs(r + 1)

\* The text s starts with the text prefix
TextStartsWith(s, prefix) ==
  Len(s) >= Len(prefix) /\ SubSeq(s, 1, Len(prefix)) = prefix

\* C30, as stated: mergePdfsInMemory of part_002 passes over every null,
\* undefined or zero-length buffer: nothing is called for it and nothing is
\* thrown for it, and a call that resolves resolves with the pages of the
\* non-empty inputs, in input order.  When PDFDocument.load throws for a
\* non-empty buffer, the call rejects with an Error whose message starts
\* with "mergePdfsInMemory failed: ", and save is not called.
C30_EmptyBuffersAreSkipped ==
  /\ \A j \in 1..Len(args) :
       IsEmptyInput(j) =>
         /\ \A c \in 1..Len(log) : log[c].src # j
         /\ failure # None => failure.src # j
  /\ outcome.state = "rejected" =>
       /\ failure # None
       /\ failure.op \in {"create", "load", "copyPages", "addPage", "save"}
  /\ outcome.state = "resolved" =>
       /\ Len(docs) = Len(NonEmptyInputs)
       /\ outcome.value = [t |-> "bytes", pages |-> PagesOfNonEmptyInputs(1)]
  /\ (failure # None /\ failure.op = "load") =>
       /\ ~IsEmptyInput(failure.src)
       /\ outcome.state = "rejected"
       /\ outcome.error.t = "Error"
       /\ TextStartsWith(outcome.error.message.s, "mergePdfsInMemory failed: ")
       /\ ~SaveCalled

\* C30, amended: as stated, except that a call whose non-empty inputs have
\* no page at all (or that has no non-empty input) resolves with one blank
\* page, the page save() gives a document without pages.
C30_EmptyBuffersAreSkippedOrBlank ==
  /\ \A j \in 1..Len(args) :
       IsEmptyInput(j) =>
         /\ \A c \in 1..Len(log) : log[c].src # j
         /\ failure # None => failure.src # j
  /\ outcome.state = "rejected" =>
       /\ failure # None
       /\ failure.op \in {"create", "load", "copyPages", "addPage", "save"}
  /\ outcome.state = "resolved" =>
       /\ Len(docs) = Len(NonEmptyInputs)
       /\ outcome.value =
            [t |-> "bytes",
             pages |-> IF PagesOfNonEmptyInputs(1) = <<>>
                       THEN <<[src |-> 0, page |-> 0]>>
                       ELSE PagesOfNonEmptyInputs(1)]
  /\ (failure # None /\ failure.op = "load") =>
       /\ ~IsEmptyInput(failure.src)
       /\ outcome.state = "rejected"
       /\ outcome.error.t = "Error"
       /\ TextStartsWith(outcome.error.message.s, "mergePdfsInMemory failed: ")
       /\ ~SaveCalled

\* A call with an empty buffer between two documents resolved with the pages
\* of the two documents
C30_Witness ==
  /\ variant = "skipping"
  /\ Len(args) = 3
  /\ IsEmptyInput(2)
  /\ outcome.state = "resolved"
  /\ Len(PagesFrom(1)) >= 1
  /\ Len(PagesFrom(3)) >= 1

====
